---------------------------- MODULE Spec2Model ----------------------------
(***************************************************************************)
(* A state-machine model of the tree-walking evaluator of tamarin/risor:   *)
(* Evaluate (core/evaluator/evaluator.go) and the control constructs       *)
(* evalFor / evalSimpleForLoop / evalIteratorForLoop / evalSwitch /        *)
(* evalPipe / evalControl.  The Go call stack is the variable `stack`; a   *)
(* call to Evaluate pushes a frame, a `return` pops it and leaves the      *)
(* returned object in `ret`.  The context's cancellation is the only       *)
(* concurrent event.  The line editor of the REPL (repl/repl.go) is a      *)
(* second state machine, ReplSpec, over variables of its own.              *)
(***************************************************************************)
EXTENDS Integers, Sequences, FiniteSets, TLC

VARIABLES
    root,        \* the node handed to the outermost Evaluate call
    opts,        \* the Opts the evaluator was made from
    builtins,    \* Evaluator.builtins, as built by New
    breakpoints, \* Evaluator.breakpoints, as built by New
    stack,       \* Go call stack of the evaluator (last element = running call)
    ret,         \* object returned by the call that has just finished
    scopes,      \* the scope arena: scope id -> [parent, vars]
    cancelled,   \* ctx.Done() is closed
    tracked,     \* TrackStatement calls on the stack of the evaluator made from
                 \* opts: how many, and the most recent one
    out,         \* breakpoint reports printed: how many, and the most recent one
    applied,     \* the most recent call handed to applyFunction / evalObjectCall
    last,        \* history of the last evaluator step: the frame that ran (pre), the
                 \* returned object it consumed (got), whether the context was
                 \* cancelled (done) and the depth of the stack before the step
    column,       \* repl.Run: the cursor column
    historyIndex, \* repl.Run: the history cursor
    history,      \* repl.Run: the lines submitted, oldest first
    accumulate,   \* repl.Run: the line being edited, a sequence of one-byte characters
    historyPath,  \* repl.Run: the path of the history file, "" if there is none
    historyFile,  \* the history file: can it be opened for writing, the lines appended
    executed,     \* the calls of execute: how many, and the most recent code
    listener,     \* keyboard.Listen: "off", "on", "exited" (os.Exit) or "panicked"
    noted         \* history, what the last key event did: "failed" - the execution
                  \* it started failed, "" - otherwise

evalVars ==
    <<root, opts, builtins, breakpoints, stack, ret, scopes, cancelled, tracked, out, applied, last>>

replVars ==
    <<column, historyIndex, history, accumulate, historyPath, historyFile, executed, listener,
      noted>>

vars == <<evalVars, replVars>>

---------------------------------------------------------------------------
(* Bounds of the model *)

\* Longest iterator an iterator-form loop is given.
MaxIterLen == 2
\* Per-activation history counters saturate at this value.
MaxCount == 5
\* Most builtins in Opts.Builtins.
MaxBuiltins == 2
Sat(n) == IF n < MaxCount THEN n + 1 ELSE MaxCount

---------------------------------------------------------------------------
(* Objects *)

Nil == [ty |-> "nil"]
\* Go's nil interface value (not the Tamarin nil object)
GoNil == [ty |-> "<nil>"]
\* no call has just returned
NoRet == [ty |-> "<none>"]
NewInt(v) == [ty |-> "int", value |-> v]
NewBool(b) == [ty |-> "bool", value |-> b]
Error(msg) == [ty |-> "error", message |-> msg]
Control(kw, v) == [ty |-> "control", keyword |-> kw, value |-> v]
Iter(n) == [ty |-> "iterator", len |-> n]
Function(name) == [ty |-> "function", name |-> name]
Builtin(name) == [ty |-> "builtin", name |-> name]
NewString(v) == [ty |-> "string", value |-> v]

NewBreak == Control("break", GoNil)
NewContinue == Control("continue", GoNil)
NewReturn(v) == Control("return", v)

IsError(obj) == obj.ty = "error"

IsControl(obj) == obj.ty = "control"

IsTruthy(obj) ==
    CASE obj.ty = "nil" -> FALSE
      [] obj.ty = "bool" -> obj.value
      [] obj.ty = "int" -> obj.value # 0
      [] OTHER -> TRUE

Equals(a, b) == a = b

ErrCancelled == Error("context canceled")
---------------------------------------------------------------------------
(* Syntax nodes.  A node is immutable; children are node ids, 0 = absent.   *)
(* `stmt` says whether the node implements ast.Statement, `line` is the     *)
(* line of its token's start position (the file is always "main").         *)

\* literals
IntLit(line, v) == [kind |-> "Int", line |-> line, stmt |-> FALSE, value |-> v]
\* an identifier
Ident(line, name) == [kind |-> "Ident", line |-> line, stmt |-> FALSE, name |-> name]
\* left op right, op one of "<" and "+"
Infix(line, op, l, r) ==
    [kind |-> "Infix", line |-> line, stmt |-> FALSE, op |-> op, left |-> l, right |-> r]
\* name := expr
Var(line, name, expr) ==
    [kind |-> "Var", line |-> line, stmt |-> TRUE, name |-> name, expr |-> expr]
\* a, b := expr
MultiVar(line, names, expr) ==
    [kind |-> "MultiVar", line |-> line, stmt |-> TRUE, names |-> names, expr |-> expr]
\* name = expr
Assign(line, name, expr) ==
    [kind |-> "Assign", line |-> line, stmt |-> TRUE, name |-> name, expr |-> expr]
\* break, continue, return [value]
ControlNode(line, literal, value) ==
    [kind |-> "Control", line |-> line, stmt |-> TRUE, literal |-> literal, value |-> value]
\* { statements }
Block(line, stmts) == [kind |-> "Block", line |-> line, stmt |-> TRUE, stmts |-> stmts]
\* for init; cond; post { body }; `iter` is what IsIteratorLoop() answers
For(line, init, cond, post, body, iter) ==
    [kind |-> "For", line |-> line, stmt |-> FALSE, init |-> init, cond |-> cond,
     post |-> post, body |-> body, iter |-> iter]
\* one case of a switch
Case(exprs, block) == [default |-> FALSE, exprs |-> exprs, block |-> block]
DefaultCase(block) == [default |-> TRUE, exprs |-> <<>>, block |-> block]
\* switch value { choices }
Switch(line, value, choices) ==
    [kind |-> "Switch", line |-> line, stmt |-> FALSE, value |-> value, choices |-> choices]
\* a |> b |> c
Pipe(line, exprs) == [kind |-> "Pipe", line |-> line, stmt |-> FALSE, exprs |-> exprs]
\* function(arguments)
Call(line, function, arguments) ==
    [kind |-> "Call", line |-> line, stmt |-> FALSE, function |-> function,
     arguments |-> arguments]
\* object.call, where call is a Call node
ObjectCall(line, object, call) ==
    [kind |-> "ObjectCall", line |-> line, stmt |-> FALSE, object |-> object, call |-> call]
\* A sub-tree whose node kinds are evaluated outside the modelled files (a call,
\* an index expression, ...): evaluating it yields any one object of `outs`.
\* a fragment of a string template: literal text, or the place of a variable
Literal(text) == [IsVariable |-> FALSE, Value |-> text]
Variable == [IsVariable |-> TRUE, Value |-> ""]

\* ast.String: `templated` - Template() is not nil; `exprs` - TemplateExpressions(),
\* 0 for a nil expression
StringLit(line, value, templated, fragments, exprs) ==
    [kind |-> "String", line |-> line, stmt |-> FALSE, value |-> value,
     templated |-> templated, fragments |-> fragments, exprs |-> exprs]

Opaque(line, stmt, outs) == [kind |-> "Opaque", line |-> line, stmt |-> stmt, outs |-> outs]

\* what a loop body may yield
BodyOuts ==
    {NewInt(1), NewInt(2), NewBreak, NewContinue, NewReturn(NewInt(7)), Error("body")}

Nodes ==
    \* for { x := 1; <any> }
       (1 :> For(1, 0, 0, 0, 2, FALSE))
    @@ (2 :> Block(1, <<3, 5>>))
    @@ (3 :> Var(2, "x", 4))
    @@ (4 :> IntLit(2, 1))
    @@ (5 :> Opaque(3, TRUE, BodyOuts))
    \* for <init>; <cond>; <post> { <any> }
    @@ (6 :> For(1, 7, 8, 9, 10, FALSE))
    @@ (7 :> Opaque(1, TRUE, {Nil, Error("init")}))
    @@ (8 :> Opaque(1, FALSE, {NewBool(TRUE), NewBool(FALSE), Error("cond")}))
    @@ (9 :> Opaque(1, TRUE, {Nil, Error("post")}))
    @@ (10 :> Opaque(2, TRUE, BodyOuts))
    \* for i := 0; i < 3; i = i + 1 { t := i; sum = sum + t; t }
    @@ (11 :> For(1, 12, 14, 17, 21, FALSE))
    @@ (12 :> Var(1, "i", 13))
    @@ (13 :> IntLit(1, 0))
    @@ (14 :> Infix(1, "<", 15, 16))
    @@ (15 :> Ident(1, "i"))
    @@ (16 :> IntLit(1, 3))
    @@ (17 :> Assign(1, "i", 18))
    @@ (18 :> Infix(1, "+", 19, 20))
    @@ (19 :> Ident(1, "i"))
    @@ (20 :> IntLit(1, 1))
    @@ (21 :> Block(1, <<22, 24, 28>>))
    @@ (22 :> Var(2, "t", 23))
    @@ (23 :> Ident(2, "i"))
    @@ (24 :> Assign(3, "sum", 25))
    @@ (25 :> Infix(3, "+", 26, 27))
    @@ (26 :> Ident(3, "sum"))
    @@ (27 :> Ident(3, "t"))
    @@ (28 :> Ident(4, "t"))
    \* for k, v := <iterable> { x := k; <any> }
    @@ (30 :> For(1, 0, 31, 0, 33, TRUE))
    @@ (31 :> MultiVar(1, <<"k", "v">>, 32))
    @@ (32 :> Opaque(1, FALSE, {Iter(n) : n \in 0..MaxIterLen} \cup {NewInt(5), Error("iter")}))
    @@ (33 :> Block(1, <<34, 36>>))
    @@ (34 :> Var(2, "x", 35))
    @@ (35 :> Ident(2, "k"))
    @@ (36 :> Opaque(3, TRUE, BodyOuts))
    \* for k := <iterable> { <any> }
    @@ (37 :> For(1, 0, 38, 0, 40, TRUE))
    @@ (38 :> Var(1, "k", 39))
    @@ (39 :> Opaque(1, FALSE, {Iter(n) : n \in 0..MaxIterLen}))
    @@ (40 :> Opaque(2, TRUE, {NewInt(1), NewContinue}))
    \* for a, b, c := <iterable> { <any> }
    @@ (41 :> For(1, 0, 42, 0, 44, TRUE))
    @@ (42 :> MultiVar(1, <<"a", "b", "c">>, 43))
    @@ (43 :> Opaque(1, FALSE, {Iter(1)}))
    @@ (44 :> Opaque(2, TRUE, {NewInt(1)}))
    \* an iterator loop whose condition is no binding
    @@ (45 :> For(1, 0, 46, 0, 47, TRUE))
    @@ (46 :> Opaque(1, FALSE, {Iter(1)}))
    @@ (47 :> Opaque(2, TRUE, {NewInt(1)}))
    \* for k, k := <iterable> { <any> }
    @@ (48 :> For(1, 0, 49, 0, 51, TRUE))
    @@ (49 :> MultiVar(1, <<"k", "k">>, 50))
    @@ (50 :> Opaque(1, FALSE, {Iter(n) : n \in 0..MaxIterLen}))
    @@ (51 :> Opaque(2, TRUE, {NewInt(1)}))
    \* an iterator loop that binds no name
    @@ (52 :> For(1, 0, 53, 0, 55, TRUE))
    @@ (53 :> MultiVar(1, <<>>, 54))
    @@ (54 :> Opaque(1, FALSE, {Iter(1)}))
    @@ (55 :> Opaque(2, TRUE, {NewInt(1)}))
    \* switch <v> { case 1, 2: A  case 2: B  default: D  case <c>: C  default: D2 }
    @@ (60 :> Switch(1, 61, <<Case(<<62, 63>>, 64), Case(<<66>>, 67), DefaultCase(69),
                             Case(<<71>>, 72), DefaultCase(74)>>))
    @@ (61 :> Opaque(1, FALSE, {NewInt(1), NewInt(2), NewInt(3), NewInt(4), Error("subject")}))
    @@ (62 :> IntLit(2, 1))
    @@ (63 :> IntLit(2, 2))
    @@ (64 :> Block(2, <<65>>))
    @@ (65 :> Opaque(3, TRUE, {NewInt(10), NewReturn(NewInt(10)), NewBreak, Error("A")}))
    @@ (66 :> IntLit(4, 2))
    @@ (67 :> Block(4, <<68>>))
    @@ (68 :> Opaque(5, TRUE, {NewInt(20)}))
    @@ (69 :> Block(6, <<70>>))
    @@ (70 :> Opaque(7, TRUE, {NewInt(30), NewReturn(Nil), Error("D")}))
    @@ (71 :> Opaque(8, FALSE, {NewInt(3), NewInt(5), Error("candidate")}))
    @@ (72 :> Block(8, <<73>>))
    @@ (73 :> Opaque(9, TRUE, {NewInt(40)}))
    @@ (74 :> Block(10, <<75>>))
    @@ (75 :> Opaque(11, TRUE, {NewInt(50)}))
    \* switch <v> { default: D  case 1: A }
    @@ (80 :> Switch(1, 81, <<DefaultCase(82), Case(<<84>>, 85)>>))
    @@ (81 :> Opaque(1, FALSE, {NewInt(1), NewInt(2)}))
    @@ (82 :> Block(2, <<83>>))
    @@ (83 :> Opaque(3, TRUE, {NewInt(30)}))
    @@ (84 :> IntLit(4, 1))
    @@ (85 :> Block(4, <<86>>))
    @@ (86 :> Opaque(5, TRUE, {NewInt(10)}))
    \* switch <v> { case 1: A }
    @@ (90 :> Switch(1, 91, <<Case(<<92>>, 93)>>))
    @@ (91 :> Opaque(1, FALSE, {NewInt(1), NewInt(2)}))
    @@ (92 :> IntLit(2, 1))
    @@ (93 :> Block(2, <<94>>))
    @@ (94 :> Opaque(3, TRUE, {NewInt(10)}))
    \* for <cond> { switch <v> { case 1: for { <any> }  default: <any> } }
    @@ (100 :> For(1, 0, 101, 0, 102, FALSE))
    @@ (101 :> Opaque(1, FALSE, {NewBool(TRUE), NewBool(FALSE)}))
    @@ (102 :> Block(1, <<103>>))
    @@ (103 :> Switch(2, 104, <<Case(<<105>>, 106), DefaultCase(110)>>))
    @@ (104 :> Opaque(2, FALSE, {NewInt(1), NewInt(2)}))
    @@ (105 :> IntLit(3, 1))
    @@ (106 :> Block(3, <<107>>))
    @@ (107 :> For(4, 0, 0, 0, 108, FALSE))
    @@ (108 :> Opaque(5, TRUE, {NewInt(1), NewBreak, NewReturn(NewInt(7))}))
    @@ (110 :> Block(6, <<111>>))
    @@ (111 :> Opaque(7, TRUE, {NewInt(3), NewBreak, NewContinue}))
    \* for { switch <v> { case 1: break  case 2: continue  case 3: return
    \*                    default: return <e> } }
    @@ (120 :> For(1, 0, 0, 0, 121, FALSE))
    @@ (121 :> Block(1, <<122>>))
    @@ (122 :> Switch(2, 123, <<Case(<<124>>, 125), Case(<<127>>, 128), Case(<<130>>, 131),
                               DefaultCase(133)>>))
    @@ (123 :> Opaque(2, FALSE, {NewInt(1), NewInt(2), NewInt(3), NewInt(4)}))
    @@ (124 :> IntLit(3, 1))
    @@ (125 :> Block(3, <<126>>))
    @@ (126 :> ControlNode(4, "break", 0))
    @@ (127 :> IntLit(5, 2))
    @@ (128 :> Block(5, <<129>>))
    @@ (129 :> ControlNode(6, "continue", 0))
    @@ (130 :> IntLit(7, 3))
    @@ (131 :> Block(7, <<132>>))
    @@ (132 :> ControlNode(8, "return", 0))
    @@ (133 :> Block(9, <<134>>))
    @@ (134 :> ControlNode(10, "return", 135))
    @@ (135 :> Opaque(10, FALSE, {NewInt(9), Error("retval")}))
    \* <src> |> double |> sub(10)
    @@ (140 :> Pipe(1, <<141, 142, 143>>))
    @@ (141 :> Opaque(1, FALSE, {NewInt(5), NewReturn(NewInt(1)), Error("src")}))
    @@ (142 :> Ident(1, "double"))
    @@ (143 :> Call(1, 144, <<145>>))
    @@ (144 :> Ident(1, "sub"))
    @@ (145 :> IntLit(1, 10))
    \* <src> |> <obj>.first(1, <arg>) |> any()
    @@ (150 :> Pipe(1, <<151, 152, 158>>))
    @@ (151 :> Opaque(1, FALSE, {NewInt(5)}))
    @@ (152 :> ObjectCall(1, 153, 154))
    @@ (153 :> Opaque(1, FALSE, {NewInt(100), Error("obj")}))
    @@ (154 :> Call(1, 155, <<156, 157>>))
    @@ (155 :> Ident(1, "first"))
    @@ (156 :> IntLit(1, 1))
    @@ (157 :> Opaque(1, FALSE, {NewInt(2), Error("arg")}))
    @@ (158 :> Call(1, 159, <<>>))
    @@ (159 :> Ident(1, "any"))
    \* <src> |> 7 |> 8
    @@ (160 :> Pipe(1, <<161, 162, 163>>))
    @@ (161 :> Opaque(1, FALSE, {NewInt(5)}))
    @@ (162 :> IntLit(1, 7))
    @@ (163 :> IntLit(1, 8))
    \* a pipe of one expression
    @@ (165 :> Pipe(1, <<166>>))
    @@ (166 :> IntLit(1, 5))
    \* <src> |> <obj>.<not an identifier>()
    @@ (170 :> Pipe(1, <<171, 172>>))
    @@ (171 :> Opaque(1, FALSE, {NewInt(5)}))
    @@ (172 :> ObjectCall(1, 173, 174))
    @@ (173 :> Opaque(1, FALSE, {NewInt(100)}))
    @@ (174 :> Call(1, 175, <<>>))
    @@ (175 :> IntLit(1, 3))
    \* <src> |> any |> sub(10) |> none |> sub(10)
    @@ (180 :> Pipe(1, <<181, 182, 183, 186, 187>>))
    @@ (181 :> Opaque(1, FALSE, {NewInt(5), Nil}))
    @@ (182 :> Ident(1, "any"))
    @@ (183 :> Call(1, 184, <<185>>))
    @@ (184 :> Ident(1, "sub"))
    @@ (185 :> IntLit(1, 10))
    @@ (186 :> Ident(1, "none"))
    @@ (187 :> Call(1, 188, <<189>>))
    @@ (188 :> Ident(1, "sub"))
    @@ (189 :> IntLit(1, 10))
    \* <src> |> none |> any
    @@ (190 :> Pipe(1, <<191, 192, 193>>))
    @@ (191 :> Opaque(1, FALSE, {NewInt(5)}))
    @@ (192 :> Ident(1, "none"))
    @@ (193 :> Ident(1, "any"))
    \* <src> |> none
    @@ (195 :> Pipe(1, <<196, 197>>))
    @@ (196 :> Opaque(1, FALSE, {NewInt(5)}))
    @@ (197 :> Ident(1, "none"))
    \* <src> |> 7
    @@ (200 :> Pipe(1, <<201, 202>>))
    @@ (201 :> Opaque(1, FALSE, {NewInt(5)}))
    @@ (202 :> IntLit(1, 7))
    \* 'x={<n>}!'
    @@ (210 :> StringLit(1, "x={n}!", TRUE, <<Literal("x="), Variable, Literal("!")>>, <<211>>))
    @@ (211 :> Opaque(1, FALSE, {NewInt(3), NewInt(-12), NewString("a b"), Nil, NewBool(TRUE),
                                 Error("n")}))
    \* 'x={}!'
    @@ (215 :> StringLit(1, "x={}!", TRUE, <<Literal("x="), Variable, Literal("!")>>, <<0>>))
    \* a string without a template
    @@ (218 :> StringLit(1, "plain {", FALSE, <<>>, <<>>))
    \* '{<a>}-{}{<b>}{<c>}.'
    @@ (220 :> StringLit(1, "{a}-{}{b}{c}.", TRUE,
                         <<Variable, Literal("-"), Variable, Variable, Variable, Literal(".")>>,
                         <<221, 0, 222, 223>>))
    @@ (221 :> Opaque(1, FALSE, {NewInt(1), Error("a")}))
    @@ (222 :> Opaque(1, FALSE, {NewString("two"), Error("b")}))
    @@ (223 :> Opaque(1, FALSE, {NewInt(3), Error("c")}))
    \* '{len}/{<stmt>}': a template that names a builtin and holds a statement
    \* on line 3
    @@ (230 :> StringLit(1, "{len}/{e}", TRUE, <<Variable, Literal("/"), Variable>>, <<231, 232>>))
    @@ (231 :> Ident(1, "len"))
    @@ (232 :> Opaque(3, TRUE, {NewInt(4), NewString("s"),
                                [ty |-> "builtin", name |-> "abs", module |-> "math",
                                 moduleName |-> "math", id |-> 2]}))
    \* len, outside of any template
    @@ (235 :> Ident(1, "len"))
    \* for i := 0; i < 3; i := i + 1 { sum = sum + i }
    @@ (240 :> For(1, 241, 243, 246, 250, FALSE))
    @@ (241 :> Var(1, "i", 242))
    @@ (242 :> IntLit(1, 0))
    @@ (243 :> Infix(1, "<", 244, 245))
    @@ (244 :> Ident(1, "i"))
    @@ (245 :> IntLit(1, 3))
    @@ (246 :> Var(1, "i", 247))
    @@ (247 :> Infix(1, "+", 248, 249))
    @@ (248 :> Ident(1, "i"))
    @@ (249 :> IntLit(1, 1))
    @@ (250 :> Block(1, <<251>>))
    @@ (251 :> Assign(2, "sum", 252))
    @@ (252 :> Infix(2, "+", 253, 254))
    @@ (253 :> Ident(2, "sum"))
    @@ (254 :> Ident(2, "i"))

\* ast.For.IsSimpleLoop: the loop has no condition
IsSimpleLoop(n) == Nodes[n].cond = 0

\* ast.For.IsIteratorLoop
IsIteratorLoop(n) == Nodes[n].iter

---------------------------------------------------------------------------
(* Scopes.  `scopes` is an arena indexed by scope id; a scope has a parent  *)
(* id (0 for the root scope) and a table of its own bindings.              *)

NoVars == [x \in {} |-> Nil]

\* scope.NewChild: a fresh scope whose parent is `parent`
NewChild(parent) == [parent |-> parent, vars |-> NoVars]

\* scope.Clear: drops the bindings of scope `s` only
Clear(arena, s) == [arena EXCEPT ![s].vars = NoVars]

\* scope.Declare succeeds iff the name is not bound in scope `s` itself
CanDeclare(arena, s, name) == name \notin DOMAIN arena[s].vars

Declare(arena, s, name, obj) ==
    [arena EXCEPT ![s].vars = (name :> obj) @@ arena[s].vars]

\* the nearest scope, from `s` outward, that binds `name`; 0 if none does
RECURSIVE Holder(_, _, _)
Holder(arena, s, name) ==
    IF s = 0 THEN 0
    ELSE IF name \in DOMAIN arena[s].vars THEN s
    ELSE Holder(arena, arena[s].parent, name)

\* scope.Get
Lookup(arena, s, name) ==
    LET h == Holder(arena, s, name)
    IN  IF h = 0 THEN Error("undefined variable") ELSE arena[h].vars[name]

\* scope.Update: rebinds `name` in the scope that holds it
Update(arena, s, name, obj) ==
    LET h == Holder(arena, s, name)
    IN  [arena EXCEPT ![h].vars = (name :> obj) @@ arena[h].vars]

---------------------------------------------------------------------------
(* Construction *)

Breakpoint(file, line, disabled, trace, stop) ==
    [File |-> file, Line |-> line, Disabled |-> disabled, Trace |-> trace, Stop |-> stop]

\* The table key fmt.Sprintf("%s:%d", file, line).  The decimal digits of the
\* line hold no ':', so the text determines the pair and the pair is the key.
Key(file, line) == <<file, line>>

\* Evaluator.breakpoints after New(opts).  The loop stores &b, the address of the
\* range variable: with a range variable per iteration (perIteration) every entry
\* points to its own copy, with one variable for the whole loop every entry
\* points to the same variable, which holds the last breakpoint of the list.
New(bps, perIteration) ==
    [k \in {Key(bps[i].File, bps[i].Line) : i \in 1..Len(bps)} |->
        IF perIteration
        THEN LET i == CHOOSE i \in 1..Len(bps) :
                        /\ Key(bps[i].File, bps[i].Line) = k
                        /\ \A j \in (i+1)..Len(bps) : Key(bps[j].File, bps[j].Line) # k
             IN  bps[i]
        ELSE bps[Len(bps)]]

\* a builtin of module `module` ("" - no module) whose moduleName field is
\* `moduleName`; `id` tells apart builtins that are different objects
ModuleBuiltin(name, module, moduleName, id) ==
    [ty |-> "builtin", name |-> name, module |-> module, moduleName |-> moduleName, id |-> id]

\* Builtin.Key
BuiltinKey(b) ==
    IF b.module = "" /\ b.moduleName = "" THEN b.name
    ELSE IF b.moduleName # "" THEN b.moduleName \o "." \o b.name
    ELSE b.module \o "." \o b.name

\* the registry after a loop of assignments that never replaces an entry
RegisterKeepsFirst(registry, bs) ==
    [k \in DOMAIN registry \cup {BuiltinKey(bs[i]) : i \in 1..Len(bs)} |->
        IF k \in DOMAIN registry THEN registry[k]
        ELSE bs[CHOOSE i \in 1..Len(bs) :
                    /\ BuiltinKey(bs[i]) = k
                    /\ \A j \in 1..(i - 1) : BuiltinKey(bs[j]) # k]]

\* the registry after `for _, b := range bs { e.builtins[b.Key()] = b }`
RECURSIVE Register(_, _)
Register(registry, bs) ==
    IF bs = <<>> THEN registry
    ELSE Register((BuiltinKey(Head(bs)) :> Head(bs)) @@ registry, Tail(bs))

\* GlobalBuiltins(): the default builtins
GlobalBuiltins ==
    <<ModuleBuiltin("len", "", "", 1), ModuleBuiltin("abs", "math", "math", 2)>>

\* Evaluator.builtins after New(o)
NewBuiltins(o) ==
    Register(IF ~o.DisableDefaultBuiltins THEN Register(<<>>, GlobalBuiltins) ELSE <<>>,
             o.Builtins)

\* Evaluator.GetBreakpoint for a token starting at ("main", line)
GetBreakpoint(table, line) ==
    IF table = <<>> \/ Key("main", line) \notin DOMAIN table
    THEN [found |-> FALSE]
    ELSE [found |-> TRUE, b |-> table[Key("main", line)]]

\* the programs evaluated, by root node
Programs ==
    {1, 6, 11, 30, 37, 41, 45, 48, 52, 60, 80, 90, 100, 120, 140, 150, 160, 165, 170, 180, 190, 195,
     200, 210, 215, 218, 220, 230, 235, 240}

\* Opts.Breakpoints of the evaluations that run with breakpoints
StopAndDisabled ==
    <<Breakpoint("main", 3, FALSE, TRUE, TRUE), Breakpoint("main", 2, TRUE, FALSE, FALSE)>>
TraceOnly == <<Breakpoint("main", 2, FALSE, TRUE, FALSE)>>

Inputs ==
    {<<p, <<>>>> : p \in Programs}
    \cup {<<1, StopAndDisabled>>, <<11, TraceOnly>>, <<230, StopAndDisabled>>, <<230, TraceOnly>>}

\* builtins an evaluator is given in Opts.Builtins
OverrideBuiltins ==
    {ModuleBuiltin("len", "", "", 3), ModuleBuiltin("len", "", "", 4),
     ModuleBuiltin("abs", "math", "", 5), ModuleBuiltin("math.abs", "", "", 6),
     ModuleBuiltin("new", "", "x", 7)}

\* Opts.Builtins of the evaluations: up to MaxBuiltins builtins for the
\* evaluations of the plain string literal, of the template that names a
\* builtin and of the name of a builtin, none for the others
BuiltinLists(p) ==
    IF p \in {218, 230, 235}
    THEN UNION {[1..n -> OverrideBuiltins] : n \in 0..MaxBuiltins}
    ELSE {<<>>}

\* Opts.Importer of the evaluations: nil, or an importer for the template
Importers(p) == IF p = 230 THEN {"nil", "importer"} ELSE {"nil"}

\* Opts{}: the zero value of Opts
DefaultOpts ==
    [Importer |-> "nil", DisableDefaultBuiltins |-> FALSE, Builtins |-> <<>>,
     Breakpoints |-> <<>>]

\* the bindings of the root scope
Globals ==
    ("sum" :> NewInt(0)) @@ ("double" :> Function("double")) @@ ("sub" :> Function("sub"))
    @@ ("any" :> Builtin("any")) @@ ("none" :> Builtin("none"))

\* a frame for a call Evaluate(ctx, node, s)
EvalFrame(n, s) == [fn |-> "Evaluate", pc |-> "entry", node |-> n, scope |-> s]

NoEvent == [pre |-> [fn |-> "<none>"], got |-> NoRet, done |-> FALSE, depth |-> 0]

\* no REPL runs
ReplOff ==
    /\ column = 0 /\ historyIndex = 0 /\ history = <<>> /\ accumulate = <<>>
    /\ historyPath = "" /\ historyFile = [writable |-> FALSE, lines |-> <<>>]
    /\ executed = [n |-> 0] /\ listener = "off" /\ noted = ""

Init ==
    /\ \E in \in Inputs, perIteration \in BOOLEAN :
          /\ root = in[1]
          /\ \E bs \in BuiltinLists(in[1]), disable \in BOOLEAN, imp \in Importers(in[1]) :
                opts = [Importer |-> imp, DisableDefaultBuiltins |-> disable,
                        Builtins |-> bs, Breakpoints |-> in[2]]
          /\ builtins = NewBuiltins(opts)
          /\ breakpoints = New(in[2], perIteration)
    /\ stack = <<EvalFrame(root, 1)>>
    /\ ret = NoRet
    /\ scopes = <<[parent |-> 0, vars |-> Globals]>>
    /\ cancelled = FALSE
    /\ tracked = [n |-> 0]
    /\ out = [n |-> 0]
    /\ applied = [n |-> 0]
    /\ last = NoEvent
    /\ ReplOff

---------------------------------------------------------------------------
(* The call stack *)

Top == stack[Len(stack)]

Pop == SubSeq(stack, 1, Len(stack) - 1)

Running(fn, pc) == stack # <<>> /\ Top.fn = fn /\ Top.pc = pc

\* every evaluator step records what it consumed
Step == last' = [pre |-> Top, got |-> ret, done |-> cancelled, depth |-> Len(stack)]

\* `return obj`
Returns(obj) == stack' = Pop /\ ret' = obj

\* the running call goes on as frame f
Becomes(f) == stack' = [stack EXCEPT ![Len(stack)] = f] /\ ret' = NoRet

\* the running call, now frame f, calls Evaluate(ctx, n, s)
Calls(f, n, s) ==
    /\ stack' = Append([stack EXCEPT ![Len(stack)] = f], EvalFrame(n, s))
    /\ ret' = NoRet

\* the running call, now frame f, calls the function whose first frame is g
CallsFn(f, g) ==
    /\ stack' = Append([stack EXCEPT ![Len(stack)] = f], g)
    /\ ret' = NoRet

\* the context is cancelled by its owner, at any moment of a running evaluation
Cancel ==
    /\ stack # <<>>
    /\ ~cancelled
    /\ cancelled' = TRUE
    /\ UNCHANGED <<replVars, root, opts, builtins, breakpoints, stack, ret, scopes, tracked, out, applied, last>>

---------------------------------------------------------------------------
(* Node kinds whose evaluators are outside the modelled files *)

\* the value of an expression built from literals, identifiers and infix operators
RECURSIVE EvalExpr(_, _, _)
EvalExpr(arena, s, n) ==
    LET node == Nodes[n]
    IN  CASE node.kind = "Int" -> NewInt(node.value)
          [] node.kind = "Ident" -> Lookup(arena, s, node.name)
          [] node.kind = "Infix" ->
                LET l == EvalExpr(arena, s, node.left)
                    r == EvalExpr(arena, s, node.right)
                IN  IF IsError(l) THEN l
                    ELSE IF IsError(r) THEN r
                    ELSE IF node.op = "<" THEN NewBool(l.value < r.value)
                    ELSE NewInt(l.value + r.value)

\* evalVarStatement: the object returned and the arena afterwards
EvalVar(arena, s, n) ==
    LET v == EvalExpr(arena, s, Nodes[n].expr)
    IN  IF IsError(v) THEN [obj |-> v, arena |-> arena]
        ELSE IF ~CanDeclare(arena, s, Nodes[n].name)
        THEN [obj |-> Error("already declared"), arena |-> arena]
        ELSE [obj |-> Nil, arena |-> Declare(arena, s, Nodes[n].name, v)]

\* evalAssignStatement: the object returned and the arena afterwards
EvalAssign(arena, s, n) ==
    LET v == EvalExpr(arena, s, Nodes[n].expr)
    IN  IF IsError(v) THEN [obj |-> v, arena |-> arena]
        ELSE IF Holder(arena, s, Nodes[n].name) = 0
        THEN [obj |-> Error("undefined variable"), arena |-> arena]
        ELSE [obj |-> Nil, arena |-> Update(arena, s, Nodes[n].name, v)]

---------------------------------------------------------------------------
(* Evaluate *)

\* Evaluate with trackExecution placed before the select on ctx.Done()
EvaluateTracksFirst(done, n) ==
    [cancel |-> done, track |-> Nodes[n].stmt]

\* Evaluate without the select on ctx.Done()
EvaluateNeverChecks(done, n) ==
    [cancel |-> FALSE, track |-> Nodes[n].stmt]

\* What Evaluate does before it dispatches: `cancel` - the select on ctx.Done()
\* returns the cancellation error; `track` - trackExecution runs for the node.
EvaluatePrologue(done, n) ==
    [cancel |-> done, track |-> ~done /\ Nodes[n].stmt]

\* the evaluator made from opts, whose Evaluate is called with the root node
Enclosing ==
    [importer |-> opts.Importer, builtins |-> builtins, breakpoints |-> breakpoints,
     own |-> FALSE]

\* evalStringLiteral evaluating a template expression with its own receiver
TemplateEvaluatorIsReceiver == Enclosing

\* The evaluator that evalStringLiteral makes for a template expression,
\* New(Opts{}); `own` - it has a stack of its own, of which nothing is read
\* once the expression is evaluated.
TemplateEvaluator ==
    [importer |-> DefaultOpts.Importer, builtins |-> NewBuiltins(DefaultOpts),
     breakpoints |-> New(DefaultOpts.Breakpoints, TRUE), own |-> TRUE]

\* a template expression is being evaluated
InTemplate == \E k \in 1..(Len(stack) - 1) : stack[k].fn = "evalStringLiteral"

\* The evaluator whose Evaluate is running: a template expression, and all it
\* evaluates, runs in the evaluator that evalStringLiteral makes for it.
Receiver == IF InTemplate THEN TemplateEvaluator ELSE Enclosing

\* evalIdentifier: the binding of the name in the scope chain, else the
\* receiver's builtin registered under the name
evalIdentifier(registry, arena, s, n) ==
    IF Holder(arena, s, Nodes[n].name) # 0 THEN Lookup(arena, s, Nodes[n].name)
    ELSE IF Nodes[n].name \in DOMAIN registry THEN registry[Nodes[n].name]
    ELSE Error("identifier not found")

\* the node-kind switch of Evaluate, for the call in frame f
Dispatch(f) ==
    LET node == Nodes[f.node]
        callee(fn) == [fn |-> fn, pc |-> "start", node |-> f.node, scope |-> f.scope]
    IN  CASE node.kind = "Int" ->
                Returns(NewInt(node.value)) /\ scopes' = scopes
          [] node.kind = "Ident" ->
                /\ Returns(evalIdentifier(Receiver.builtins, scopes, f.scope, f.node))
                /\ scopes' = scopes
          [] node.kind = "Infix" ->
                Returns(EvalExpr(scopes, f.scope, f.node)) /\ scopes' = scopes
          [] node.kind = "Var" ->
                LET r == EvalVar(scopes, f.scope, f.node)
                IN  Returns(r.obj) /\ scopes' = r.arena
          [] node.kind = "Assign" ->
                LET r == EvalAssign(scopes, f.scope, f.node)
                IN  Returns(r.obj) /\ scopes' = r.arena
          [] node.kind = "Opaque" ->
                /\ \E o \in node.outs : Returns(o)
                /\ scopes' = scopes
          [] node.kind = "Block" -> Becomes(callee("evalBlockStatement")) /\ scopes' = scopes
          [] node.kind = "Control" -> Becomes(callee("evalControl")) /\ scopes' = scopes
          [] node.kind = "For" -> Becomes(callee("evalFor")) /\ scopes' = scopes
          [] node.kind = "Switch" -> Becomes(callee("evalSwitch")) /\ scopes' = scopes
          [] node.kind = "Pipe" -> Becomes(callee("evalPipe")) /\ scopes' = scopes
          [] node.kind = "String" ->
                Becomes(callee("evalStringLiteral")) /\ scopes' = scopes

\* Evaluate, from its entry to the node-kind switch
Evaluate ==
    /\ Running("Evaluate", "entry")
    /\ LET f == Top
           p == EvaluatePrologue(cancelled, f.node)
           bp == GetBreakpoint(Receiver.breakpoints, Nodes[f.node].line)
           hit == p.track /\ bp.found /\ ~bp.b.Disabled
       IN  /\ tracked' = IF p.track /\ ~Receiver.own
                         THEN [n |-> Sat(tracked.n), node |-> f.node, scope |-> f.scope]
                         ELSE tracked
           /\ out' = IF hit
                     THEN [n |-> Sat(out.n), line |-> Nodes[f.node].line,
                           trace |-> bp.b.Trace, stop |-> bp.b.Stop]
                     ELSE out
           /\ IF p.cancel
              THEN Returns(ErrCancelled) /\ scopes' = scopes
              ELSE IF hit /\ bp.b.Stop
              THEN Becomes([f EXCEPT !.pc = "scanln"]) /\ scopes' = scopes
              ELSE Dispatch(f)
    /\ Step
    /\ UNCHANGED <<replVars, root, opts, builtins, breakpoints, cancelled, applied>>

\* trackExecution: fmt.Scanln returns (the operator pressed enter), and
\* Evaluate goes on to its node-kind switch
trackExecution ==
    /\ Running("Evaluate", "scanln")
    /\ Dispatch(Top)
    /\ Step
    /\ stack # <<>>
    /\ UNCHANGED <<replVars, root, opts, builtins, breakpoints, cancelled, tracked, out, applied>>

\* evalBlockStatement: the statements in order, in the block's own scope; an
\* Error or a Control object ends the block and is its result
evalBlockStatement ==
    /\ stack # <<>>
    /\ UNCHANGED <<replVars, root, opts, builtins, breakpoints, cancelled, tracked, out, applied, scopes>>
    /\ Step
    /\ \/ /\ Running("evalBlockStatement", "start")
          /\ Calls([Top EXCEPT !.pc = "stmt"] @@ [i |-> 1],
                   Nodes[Top.node].stmts[1], Top.scope)
       \/ /\ Running("evalBlockStatement", "stmt")
          /\ LET f == Top
                 stmts == Nodes[f.node].stmts
             IN  IF IsError(ret) \/ IsControl(ret) \/ f.i = Len(stmts)
                 THEN Returns(ret)
                 ELSE Calls([f EXCEPT !.i = f.i + 1], stmts[f.i + 1], f.scope)

\* evalControl
evalControl ==
    /\ stack # <<>>
    /\ UNCHANGED <<replVars, root, opts, builtins, breakpoints, cancelled, tracked, out, applied, scopes>>
    /\ Step
    /\ \/ /\ Running("evalControl", "start")
          /\ LET node == Nodes[Top.node]
             IN  CASE node.literal = "break" -> Returns(NewBreak)
                   [] node.literal = "continue" -> Returns(NewContinue)
                   [] node.literal = "return" ->
                        IF node.value = 0
                        THEN Returns(NewReturn(Nil))
                        ELSE Calls([Top EXCEPT !.pc = "value"], node.value, Top.scope)
                   [] OTHER -> Returns(Error("invalid control keyword"))
       \/ /\ Running("evalControl", "value")
          /\ IF IsError(ret) THEN Returns(ret) ELSE Returns(NewReturn(ret))

---------------------------------------------------------------------------
(* for *)

\* history of one loop activation: Evaluate calls made for init, cond, body and
\* post, truthy condition results, iterator.Next calls, and the last body result
\* that was neither an Error nor a Control object
NoHistory ==
    [init |-> 0, cond |-> 0, truthy |-> 0, body |-> 0, post |-> 0, next |-> 0, ord |-> Nil]

Ordinary(h, rt) == IF IsError(rt) \/ IsControl(rt) THEN h.ord ELSE rt

\* loopScope.Clear() at the top of an iteration of the condition form
ClearFor(arena, loopScope) == Clear(arena, loopScope)

\* evalSimpleForLoop without s.Clear()
ClearSimpleMissing(arena, s) == arena

\* s.Clear() at the top of an iteration of the simple form
ClearSimple(arena, s) == Clear(arena, s)

\* s.Clear() at the top of an iteration of the iterator form
ClearIterator(arena, s) == Clear(arena, s)

\* evalFor testing the condition against nil instead of IsTruthy()
ForConditionNotNil(condition) ==
    CASE IsError(condition) -> "return"
      [] condition # Nil -> "body"
      [] OTHER -> "break"

\* evalFor's test of the condition's result: "return" it, run the "body", or "break"
ForCondition(condition) ==
    CASE IsError(condition) -> "return"
      [] IsTruthy(condition) -> "body"
      [] OTHER -> "break"

\* evalFor with a continue case that leaves the loop like break
ForBodyContinueBreaks(rt, latestValue) ==
    CASE IsError(rt) -> [op |-> "return", obj |-> rt, latestValue |-> latestValue]
      [] IsControl(rt) /\ rt.keyword \in {"break", "continue"} ->
            [op |-> "return", obj |-> latestValue, latestValue |-> latestValue]
      [] IsControl(rt) /\ rt.keyword = "return" ->
            [op |-> "return", obj |-> rt, latestValue |-> latestValue]
      [] OTHER -> [op |-> "on", obj |-> rt, latestValue |-> rt]

\* evalFor's switch on the body's result rt: what the loop does next
\* ("return" obj, or go "on" to the post statement) and the new latestValue
ForBody(rt, latestValue) ==
    CASE IsError(rt) -> [op |-> "return", obj |-> rt, latestValue |-> latestValue]
      [] IsControl(rt) /\ rt.keyword = "break" ->
            [op |-> "return", obj |-> latestValue, latestValue |-> latestValue]
      [] IsControl(rt) /\ rt.keyword = "return" ->
            [op |-> "return", obj |-> rt, latestValue |-> latestValue]
      [] IsControl(rt) -> [op |-> "on", obj |-> rt, latestValue |-> latestValue]
      [] OTHER -> [op |-> "on", obj |-> rt, latestValue |-> rt]

\* evalSimpleForLoop with `return result` in the break case
SimpleBodyReturnsBreak(result, latestValue) ==
    CASE IsError(result) -> [op |-> "return", obj |-> result, latestValue |-> latestValue]
      [] IsControl(result) /\ result.keyword \in {"break", "return"} ->
            [op |-> "return", obj |-> result, latestValue |-> latestValue]
      [] IsControl(result) ->
            [op |-> "on", obj |-> result, latestValue |-> latestValue]
      [] OTHER -> [op |-> "on", obj |-> result, latestValue |-> result]

\* evalSimpleForLoop's switch on the body's result
SimpleBody(result, latestValue) ==
    CASE IsError(result) -> [op |-> "return", obj |-> result, latestValue |-> latestValue]
      [] IsControl(result) /\ result.keyword = "break" ->
            [op |-> "return", obj |-> latestValue, latestValue |-> latestValue]
      [] IsControl(result) /\ result.keyword = "continue" ->
            [op |-> "on", obj |-> result, latestValue |-> latestValue]
      [] IsControl(result) /\ result.keyword = "return" ->
            [op |-> "return", obj |-> result, latestValue |-> latestValue]
      [] OTHER -> [op |-> "on", obj |-> result, latestValue |-> result]

\* evalIteratorForLoop without the *object.Error case
IteratorBodyKeepsGoing(rt, latestValue) ==
    CASE IsControl(rt) /\ rt.keyword = "break" ->
            [op |-> "return", obj |-> latestValue, latestValue |-> latestValue]
      [] IsControl(rt) /\ rt.keyword = "return" ->
            [op |-> "return", obj |-> rt, latestValue |-> latestValue]
      [] IsControl(rt) -> [op |-> "on", obj |-> rt, latestValue |-> latestValue]
      [] OTHER -> [op |-> "on", obj |-> rt, latestValue |-> rt]

\* evalIteratorForLoop's switch on the body's result
IteratorBody(rt, latestValue) ==
    CASE IsError(rt) -> [op |-> "return", obj |-> rt, latestValue |-> latestValue]
      [] IsControl(rt) /\ rt.keyword = "break" ->
            [op |-> "return", obj |-> latestValue, latestValue |-> latestValue]
      [] IsControl(rt) /\ rt.keyword = "return" ->
            [op |-> "return", obj |-> rt, latestValue |-> latestValue]
      [] IsControl(rt) -> [op |-> "on", obj |-> rt, latestValue |-> latestValue]
      [] OTHER -> [op |-> "on", obj |-> rt, latestValue |-> rt]

\* a loop returns obj; the two scopes evalFor made are unreachable from then on
LoopReturns(f, obj) == Returns(obj) /\ scopes' = SubSeq(scopes, 1, f.base)

\* the condition form goes on to its next iteration: clear, then the condition
ForIterate(f) ==
    /\ scopes' = ClearFor(scopes, f.loopScope)
    /\ Calls([f EXCEPT !.pc = "cond", !.h.cond = Sat(f.h.cond)],
             Nodes[f.node].cond, f.forScope)

\* the simple form goes on to its next iteration: clear, then the body
SimpleIterate(f) ==
    /\ scopes' = ClearSimple(scopes, f.s)
    /\ Calls([f EXCEPT !.pc = "body", !.h.body = Sat(f.h.body)],
             Nodes[f.node].body, f.s)

\* the iterator form goes on: clear, iterator.Next(), declare the names, the body
IteratorIterate(f) ==
    LET cleared == ClearIterator(scopes, f.s)
        g == [f EXCEPT !.h.next = Sat(f.h.next)]
        key == NewInt(f.pos)
        value == NewInt(f.pos + 10)
        one == Declare(cleared, f.s, f.names[1], key)
    IN  IF f.pos >= f.iterator.len
        THEN LoopReturns(g, f.latestValue)
        ELSE IF ~CanDeclare(cleared, f.s, f.names[1])
        THEN LoopReturns(g, Error("already declared"))
        ELSE IF Len(f.names) > 1 /\ ~CanDeclare(one, f.s, f.names[2])
        THEN LoopReturns(g, Error("already declared"))
        ELSE /\ scopes' = IF Len(f.names) > 1
                          THEN Declare(one, f.s, f.names[2], value)
                          ELSE one
             /\ Calls([g EXCEPT !.pc = "body", !.pos = f.pos + 1,
                                !.h.body = Sat(f.h.body)],
                      Nodes[f.node].body, f.s)

\* evalFor goes on after the init statement: one of the three forms
ForForms(f) ==
    IF IsSimpleLoop(f.node)
    THEN SimpleIterate([f EXCEPT !.fn = "evalSimpleForLoop"] @@ [s |-> f.loopScope])
    ELSE IF IsIteratorLoop(f.node)
    THEN /\ Becomes([f EXCEPT !.fn = "evalIteratorForLoop", !.pc = "start"]
                    @@ [s |-> f.loopScope])
         /\ scopes' = scopes
    ELSE ForIterate(f)

evalFor ==
    /\ stack # <<>>
    /\ UNCHANGED <<replVars, root, opts, builtins, breakpoints, cancelled, tracked, out, applied>>
    /\ Step
    /\ \/ /\ Running("evalFor", "start")
          /\ LET forScope == Len(scopes) + 1
                 loopScope == Len(scopes) + 2
                 f == Top @@ [forScope |-> forScope, loopScope |-> loopScope,
                              base |-> Len(scopes), latestValue |-> Nil,
                              h |-> NoHistory]
                 init == Nodes[Top.node].init
             IN  /\ scopes' = scopes \o <<NewChild(Top.scope), NewChild(forScope)>>
                 /\ IF init # 0
                    THEN Calls([f EXCEPT !.pc = "init", !.h.init = 1], init, forScope)
                    ELSE Becomes([f EXCEPT !.pc = "forms"])
       \/ /\ Running("evalFor", "init")
          /\ IF IsError(ret)
             THEN LoopReturns(Top, ret)
             ELSE ForForms(Top)
       \/ /\ Running("evalFor", "forms")
          /\ ForForms(Top)
       \/ /\ Running("evalFor", "cond")
          /\ LET f == [Top EXCEPT !.h.truthy = IF ~IsError(ret) /\ IsTruthy(ret)
                                                   THEN Sat(Top.h.truthy)
                                                   ELSE Top.h.truthy]
                 c == ForCondition(ret)
             IN  IF c = "return"
                 THEN LoopReturns(f, ret)
                 ELSE IF c = "body"
                 THEN /\ Calls([f EXCEPT !.pc = "body", !.h.body = Sat(f.h.body)],
                               Nodes[f.node].body, f.loopScope)
                      /\ scopes' = scopes
                 ELSE LoopReturns(f, f.latestValue)
       \/ /\ Running("evalFor", "body")
          /\ LET f == Top
                 b == ForBody(ret, f.latestValue)
                 g == [f EXCEPT !.latestValue = b.latestValue, !.h.ord = Ordinary(f.h, ret)]
                 post == Nodes[f.node].post
             IN  IF b.op = "return"
                 THEN LoopReturns(g, b.obj)
                 ELSE IF post # 0
                 THEN /\ Calls([g EXCEPT !.pc = "post", !.h.post = Sat(f.h.post)],
                               post, f.forScope)
                      /\ scopes' = scopes
                 ELSE ForIterate(g)
       \/ /\ Running("evalFor", "post")
          /\ IF IsError(ret)
             THEN LoopReturns(Top, ret)
             ELSE ForIterate(Top)

evalSimpleForLoop ==
    /\ stack # <<>>
    /\ UNCHANGED <<replVars, root, opts, builtins, breakpoints, cancelled, tracked, out, applied>>
    /\ Step
    /\ Running("evalSimpleForLoop", "body")
    /\ LET f == Top
           b == SimpleBody(ret, f.latestValue)
           g == [f EXCEPT !.latestValue = b.latestValue, !.h.ord = Ordinary(f.h, ret)]
       IN  IF b.op = "return"
           THEN LoopReturns(g, b.obj)
           ELSE SimpleIterate(g)

\* the switch on the loop's condition taking a node that is no binding for a
\* binding of one name to that node
IteratorConditionAnyNode(n) ==
    LET cond == Nodes[Nodes[n].cond]
    IN  CASE cond.kind = "Var" -> [ok |-> TRUE, names |-> <<cond.name>>, iterExpr |-> cond.expr]
          [] cond.kind = "MultiVar" -> [ok |-> TRUE, names |-> cond.names, iterExpr |-> cond.expr]
          [] OTHER -> [ok |-> TRUE, names |-> <<"k">>, iterExpr |-> Nodes[n].cond]

\* the names bound and the iterated expression of an iterator loop's condition
IteratorCondition(n) ==
    LET cond == Nodes[Nodes[n].cond]
    IN  CASE cond.kind = "Var" -> [ok |-> TRUE, names |-> <<cond.name>>, iterExpr |-> cond.expr]
          [] cond.kind = "MultiVar" -> [ok |-> TRUE, names |-> cond.names, iterExpr |-> cond.expr]
          [] OTHER -> [ok |-> FALSE]

evalIteratorForLoop ==
    /\ stack # <<>>
    /\ UNCHANGED <<replVars, root, opts, builtins, breakpoints, cancelled, tracked, out, applied>>
    /\ Step
    /\ \/ /\ Running("evalIteratorForLoop", "start")
          /\ LET f == Top
                 c == IteratorCondition(f.node)
             IN  IF ~c.ok
                 THEN LoopReturns(f, Error("eval error: invalid for loop condition"))
                 ELSE IF Len(c.names) < 1 \/ Len(c.names) > 2
                 THEN LoopReturns(f, Error("eval error: invalid for loop condition"))
                 ELSE /\ Calls([f EXCEPT !.pc = "iter"] @@ [names |-> c.names],
                               c.iterExpr, f.s)
                      /\ scopes' = scopes
       \/ /\ Running("evalIteratorForLoop", "iter")
          /\ LET f == Top
             IN  IF IsError(ret)
                 THEN LoopReturns(f, ret)
                 ELSE IF ret.ty # "iterator"
                 THEN LoopReturns(f, Error("eval error: cannot iterate"))
                 ELSE IteratorIterate(f @@ [iterator |-> ret, pos |-> 0])
       \/ /\ Running("evalIteratorForLoop", "body")
          /\ LET f == Top
                 b == IteratorBody(ret, f.latestValue)
                 g == [f EXCEPT !.latestValue = b.latestValue, !.h.ord = Ordinary(f.h, ret)]
             IN  IF b.op = "return"
                 THEN LoopReturns(g, b.obj)
                 ELSE IteratorIterate(g)

---------------------------------------------------------------------------
(* switch *)

\* the candidates of case c visited from the right
CaseCandidatesFromRight(choices, c) ==
    IF choices[c].default THEN <<>>
    ELSE [e \in 1..Len(choices[c].exprs) |-> <<c, Len(choices[c].exprs) + 1 - e>>]

\* the candidates of case c, in the order evalSwitch's inner loop visits them
CaseCandidates(choices, c) ==
    IF choices[c].default THEN <<>>
    ELSE [e \in 1..Len(choices[c].exprs) |-> <<c, e>>]

\* every candidate <<case, position>> in the order evalSwitch evaluates them
RECURSIVE CandidatesFrom(_, _)
CandidatesFrom(choices, c) ==
    IF c > Len(choices) THEN <<>>
    ELSE CaseCandidates(choices, c) \o CandidatesFrom(choices, c + 1)

Candidates(choices) == CandidatesFrom(choices, 1)

\* the second loop without its return: the last default wins
DefaultChoiceLast(choices) ==
    IF \E c \in 1..Len(choices) : choices[c].default
    THEN CHOOSE c \in 1..Len(choices) :
            /\ choices[c].default
            /\ \A d \in (c + 1)..Len(choices) : ~choices[d].default
    ELSE 0

\* the case evalSwitch's second loop settles on: the first default, 0 if none
DefaultChoice(choices) ==
    IF \E c \in 1..Len(choices) : choices[c].default
    THEN CHOOSE c \in 1..Len(choices) :
            /\ choices[c].default
            /\ \A d \in 1..(c - 1) : ~choices[d].default
    ELSE 0

\* evalSwitch unwrapping the block's result as upwrapReturnValue does
SwitchResultUnwrapped(obj) == IF IsControl(obj) THEN obj.value ELSE obj

\* what evalSwitch does with the result of evalBlockStatement
SwitchResult(obj) == obj

BlockFrame(n, s) == [fn |-> "evalBlockStatement", pc |-> "start", node |-> n, scope |-> s]

\* evalSwitch goes on after candidate number k of Candidates: the next
\* candidate, or the default block, or nil.  The frame's history: `seen` - the
\* candidates evaluated so far, `vals` - what they evaluated to, `ran` - the
\* case whose block was executed (0 = none)
SwitchScan(f, k) ==
    LET choices == Nodes[f.node].choices
        cands == Candidates(choices)
        d == DefaultChoice(choices)
    IN  IF k < Len(cands)
        THEN Calls([f EXCEPT !.pc = "candidate", !.k = k + 1,
                             !.seen = Append(f.seen, cands[k + 1])],
                   choices[cands[k + 1][1]].exprs[cands[k + 1][2]], f.scope)
        ELSE IF d # 0
        THEN CallsFn([f EXCEPT !.pc = "block", !.k = k, !.ran = d],
                     BlockFrame(choices[d].block, f.scope))
        ELSE Returns(Nil)

evalSwitch ==
    /\ stack # <<>>
    /\ UNCHANGED <<replVars, root, opts, builtins, breakpoints, cancelled, tracked, out, applied, scopes>>
    /\ Step
    /\ \/ /\ Running("evalSwitch", "start")
          /\ Calls([Top EXCEPT !.pc = "value"] @@ [k |-> 0, seen |-> <<>>, vals |-> <<>>,
                                                  ran |-> 0],
                   Nodes[Top.node].value, Top.scope)
       \/ /\ Running("evalSwitch", "value")
          /\ IF IsError(ret)
             THEN Returns(ret)
             ELSE SwitchScan(Top @@ [value |-> ret], 0)
       \/ /\ Running("evalSwitch", "candidate")
          /\ LET f == [Top EXCEPT !.vals = Append(Top.vals, ret)]
                 choices == Nodes[f.node].choices
                 c == Candidates(choices)[f.k][1]
             IN  IF IsError(ret)
                 THEN Returns(ret)
                 ELSE IF Equals(f.value, ret)
                 THEN CallsFn([f EXCEPT !.pc = "block", !.ran = c],
                              BlockFrame(choices[c].block, f.scope))
                 ELSE SwitchScan(f, f.k)
       \/ /\ Running("evalSwitch", "block")
          /\ Returns(SwitchResult(ret))

---------------------------------------------------------------------------
(* pipe *)

\* a Go slice of objects, as a returned value
List(elems) == [ty |-> "<slice>", elems |-> elems]

\* evalExpressions: the expressions in order; the first Error ends the
\* evaluation and is returned as a one-element slice
evalExpressions ==
    /\ stack # <<>>
    /\ UNCHANGED <<replVars, root, opts, builtins, breakpoints, cancelled, tracked, out, applied, scopes>>
    /\ Step
    /\ \/ /\ Running("evalExpressions", "start")
          /\ Calls([Top EXCEPT !.pc = "exp"], Top.exps[1], Top.scope)
       \/ /\ Running("evalExpressions", "exp")
          /\ LET f == Top
                 result == Append(f.result, ret)
             IN  IF IsError(ret)
                 THEN Returns(List(<<ret>>))
                 ELSE IF Len(result) = Len(f.exps)
                 THEN Returns(List(result))
                 ELSE Calls([f EXCEPT !.result = result], f.exps[Len(result) + 1], f.scope)

ExpressionsFrame(exps, s) ==
    [fn |-> "evalExpressions", pc |-> "start", exps |-> exps, scope |-> s, result |-> <<>>]

\* applyFunction: the objects a call of fn with args may return
ApplyFunction(fn, args) ==
    CASE fn = Function("sub") ->
            IF Len(args) = 2 /\ \A i \in 1..2 : args[i].ty = "int"
            THEN {NewInt(args[1].value - args[2].value)}
            ELSE {Error("type error: sub")}
      [] fn = Function("double") ->
            IF Len(args) = 1 /\ args[1].ty = "int"
            THEN {NewInt(2 * args[1].value)}
            ELSE {Error("type error: double")}
      [] fn = Builtin("any") -> {NewInt(1), Error("any")}
      \* a builtin whose Go function returns nil: Builtin.Call hands it on
      [] fn = Builtin("none") -> {GoNil}
      [] OTHER -> {Error("type error: not a function")}

\* evalObjectCall: the objects a call of obj.method(args) may return
ObjectCallResults(obj, method, args) ==
    IF method = "first" /\ args # <<>> THEN {args[1]} ELSE {Error("no such method")}

\* prependObject putting obj behind the elements of the slice
prependObjectAppends(slice, obj) == Append(slice, obj)

\* prependObject
prependObject(slice, obj) ==
    LET grown == Append(slice, GoNil)
        copied == [i \in 1..Len(grown) |-> IF i = 1 THEN grown[1] ELSE grown[i - 1]]
    IN  [copied EXCEPT ![1] = obj]

\* the argument list of a call stage: nextArg, if there is one, then the arguments
StageArguments(args, nextArg) ==
    IF nextArg # GoNil THEN prependObject(args, nextArg) ELSE args

\* the argument list of a bare callable stage that always holds nextArg
BareArgumentsAlways(nextArg) == <<nextArg>>

\* the argument list of a bare callable stage
BareArguments(nextArg) == IF nextArg # GoNil THEN <<nextArg>> ELSE <<>>

\* evalPipe goes on to stage i, with exprs[i + 1], or returns after the last one
PipeStage(f, i) ==
    LET exprs == Nodes[f.node].exprs
        g == [f EXCEPT !.i = i]
    IN  IF i + 1 > Len(exprs)
        THEN Returns(IF f.nextArg # GoNil THEN f.nextArg ELSE Nil) /\ applied' = applied
        ELSE LET expression == Nodes[exprs[i + 1]]
             IN  /\ applied' = applied
                 /\ CASE expression.kind = "Call" ->
                            Calls([g EXCEPT !.pc = "function"], expression.function, f.scope)
                       [] expression.kind = "ObjectCall" ->
                            Calls([g EXCEPT !.pc = "object"], expression.object, f.scope)
                       [] OTHER ->
                            Calls([g EXCEPT !.pc = "bare"], exprs[i + 1], f.scope)

\* the test of a stage's result that lets every result pass
StageFailedNever(res) == FALSE

\* evalPipe's test of the result of a stage's invocation: object.IsError(res)
StageFailed(res) == IsError(res)

\* a stage has produced res: an Error ends the pipe, anything else is nextArg
PipeResult(f, res) ==
    IF StageFailed(res)
    THEN Returns(res)
    ELSE LET exprs == Nodes[f.node].exprs
             g == [f EXCEPT !.nextArg = res, !.i = f.i + 1]
         IN  IF f.i + 2 > Len(exprs)
             THEN Returns(IF res # GoNil THEN res ELSE Nil)
             ELSE LET expression == Nodes[exprs[f.i + 2]]
                  IN  CASE expression.kind = "Call" ->
                            Calls([g EXCEPT !.pc = "function"], expression.function, f.scope)
                        [] expression.kind = "ObjectCall" ->
                            Calls([g EXCEPT !.pc = "object"], expression.object, f.scope)
                        [] OTHER ->
                            Calls([g EXCEPT !.pc = "bare"], exprs[f.i + 2], f.scope)

\* the call of a plain call stage
PipeCall(f, function, args) ==
    LET all == StageArguments(args, f.nextArg)
    IN  \E res \in ApplyFunction(function, all) :
            /\ applied' = [n |-> Sat(applied.n), kind |-> "call", fn |-> function,
                           args |-> all, node |-> f.node, stage |-> f.i,
                           nextArg |-> f.nextArg, explicit |-> args, res |-> res]
            /\ PipeResult(f, res)

\* the call of a method-style call stage
PipeObjectCall(f, obj, args) ==
    LET all == StageArguments(args, f.nextArg)
        callExpr == Nodes[Nodes[Nodes[f.node].exprs[f.i + 1]].call]
        method == Nodes[callExpr.function]
    IN  IF method.kind # "Ident"
        THEN Returns(Error("invalid function in pipe expression")) /\ applied' = applied
        ELSE \E res \in ObjectCallResults(obj, method.name, all) :
                /\ applied' = [n |-> Sat(applied.n), kind |-> "object", fn |-> obj,
                               method |-> method.name, args |-> all, node |-> f.node,
                               stage |-> f.i, nextArg |-> f.nextArg, explicit |-> args,
                               res |-> res]
                /\ PipeResult(f, res)

evalPipe ==
    /\ stack # <<>>
    /\ UNCHANGED <<replVars, root, opts, builtins, breakpoints, cancelled, tracked, out, scopes>>
    /\ Step
    /\ \/ /\ Running("evalPipe", "start")
          /\ applied' = applied
          /\ LET exprs == Nodes[Top.node].exprs
             IN  IF Len(exprs) < 2
                 THEN Returns(Error("eval error: invalid pipe expression"))
                 ELSE Calls([Top EXCEPT !.pc = "source"] @@ [nextArg |-> GoNil, i |-> 0,
                                                            callee |-> GoNil],
                            exprs[1], Top.scope)
       \/ /\ Running("evalPipe", "source")
          /\ IF IsError(ret)
             THEN Returns(ret) /\ applied' = applied
             ELSE PipeStage([Top EXCEPT !.nextArg = ret], 1)
       \/ /\ Running("evalPipe", "function")
          /\ LET f == Top
                 arguments == Nodes[Nodes[f.node].exprs[f.i + 1]].arguments
             IN  IF IsError(ret)
                 THEN Returns(ret) /\ applied' = applied
                 ELSE IF Len(arguments) > 0
                 THEN /\ CallsFn([f EXCEPT !.pc = "arguments", !.callee = ret],
                                 ExpressionsFrame(arguments, f.scope))
                      /\ applied' = applied
                 ELSE PipeCall(f, ret, <<>>)
       \/ /\ Running("evalPipe", "arguments")
          /\ LET args == ret.elems
             IN  IF Len(args) = 1 /\ IsError(args[1])
                 THEN Returns(args[1]) /\ applied' = applied
                 ELSE PipeCall(Top, Top.callee, args)
       \/ /\ Running("evalPipe", "object")
          /\ LET f == Top
                 callExpr == Nodes[Nodes[Nodes[f.node].exprs[f.i + 1]].call]
             IN  IF IsError(ret)
                 THEN Returns(ret) /\ applied' = applied
                 ELSE IF Len(callExpr.arguments) > 0
                 THEN /\ CallsFn([f EXCEPT !.pc = "objectArguments", !.callee = ret],
                                 ExpressionsFrame(callExpr.arguments, f.scope))
                      /\ applied' = applied
                 ELSE PipeObjectCall(f, ret, <<>>)
       \/ /\ Running("evalPipe", "objectArguments")
          /\ LET args == ret.elems
             IN  IF Len(args) = 1 /\ IsError(args[1])
                 THEN Returns(args[1]) /\ applied' = applied
                 ELSE PipeObjectCall(Top, Top.callee, args)
       \/ /\ Running("evalPipe", "bare")
          /\ LET f == Top
             IN  IF IsError(ret)
                 THEN Returns(ret) /\ applied' = applied
                 ELSE IF ret.ty \in {"function", "builtin"}
                 THEN LET args == BareArguments(f.nextArg)
                      IN  \E res \in ApplyFunction(ret, args) :
                              /\ applied' = [n |-> Sat(applied.n), kind |-> "bare", fn |-> ret,
                                             args |-> args, node |-> f.node, stage |-> f.i,
                                             nextArg |-> f.nextArg, explicit |-> <<>>,
                                             res |-> res]
                              /\ PipeResult(f, res)
                 ELSE IF f.i = 1
                 THEN PipeStage([f EXCEPT !.nextArg = ret], f.i + 1)
                 ELSE Returns(Error("type error: unexpected object in pipe expression"))
                      /\ applied' = applied

---------------------------------------------------------------------------
(* string literals *)

\* Builtin.Inspect; a builtin made without a module has none
BuiltinInspect(b) ==
    IF "module" \notin DOMAIN b \/ b.module = ""
    THEN "builtin(" \o b.name \o ")"
    ELSE "builtin(" \o b.module \o "." \o b.name \o ")"

\* Object.Inspect: the human-readable text of a value
Inspect(obj) ==
    CASE obj.ty = "int" -> ToString(obj.value)
      [] obj.ty = "builtin" -> BuiltinInspect(obj)
      [] obj.ty = "bool" -> IF obj.value THEN "true" ELSE "false"
      [] obj.ty = "nil" -> "nil"
      [] obj.ty = "string" -> "\"" \o obj.value \o "\""
      [] OTHER -> "<" \o obj.ty \o ">"

\* strings.Join(parts, "")
RECURSIVE Join(_)
Join(parts) == IF parts = <<>> THEN "" ELSE Head(parts) \o Join(Tail(parts))

\* the text a template expression's value contributes, for every value
\* its Inspect text
PieceInspectsAll(obj) == Inspect(obj)

\* the text a template expression's value contributes
Piece(obj) == IF obj.ty = "string" THEN obj.value ELSE Inspect(obj)

\* The fragment loop of evalStringLiteral from fragment `fi` on, up to its next
\* call of Evaluate (`call` is the expression) or to its end (`call` is 0).
RECURSIVE Fragments(_, _, _, _)
Fragments(node, fi, exprIndex, parts) ==
    IF fi > Len(node.fragments)
    THEN [call |-> 0, fi |-> fi, exprIndex |-> exprIndex, parts |-> parts]
    ELSE LET f == node.fragments[fi]
         IN  IF f.IsVariable
             THEN LET expr == node.exprs[exprIndex + 1]
                  IN  IF expr = 0
                      THEN Fragments(node, fi + 1, exprIndex + 1, Append(parts, ""))
                      ELSE [call |-> expr, fi |-> fi, exprIndex |-> exprIndex + 1,
                            parts |-> parts]
             ELSE Fragments(node, fi + 1, exprIndex, Append(parts, f.Value))

\* evalStringLiteral goes on from fragment fi; `vals` is history: the values of
\* the template expressions evaluated so far, by their index
StringGoesOn(f, fi, exprIndex, parts, vals) ==
    LET r == Fragments(Nodes[f.node], fi, exprIndex, parts)
    IN  IF r.call = 0
        THEN Returns(NewString(Join(r.parts)))
        ELSE Calls([fi |-> r.fi, exprIndex |-> r.exprIndex, parts |-> r.parts,
                    vals |-> vals] @@ [f EXCEPT !.pc = "expr"],
                   r.call, f.scope)

\* the switch on a template expression's value with no case for an Error
StringExprInspectsError(f, obj) ==
    StringGoesOn(f, f.fi + 1, f.exprIndex, Append(f.parts, Piece(obj)),
                 (f.exprIndex :> obj) @@ f.vals)

\* evalStringLiteral's switch on the value obj of a template expression
StringExpr(f, obj) ==
    IF IsError(obj)
    THEN Returns(obj)
    ELSE StringGoesOn(f, f.fi + 1, f.exprIndex, Append(f.parts, Piece(obj)),
                      (f.exprIndex :> obj) @@ f.vals)

evalStringLiteral ==
    /\ stack # <<>>
    /\ UNCHANGED <<replVars, root, opts, builtins, breakpoints, cancelled, tracked, out, applied, scopes>>
    /\ Step
    /\ \/ /\ Running("evalStringLiteral", "start")
          /\ IF ~Nodes[Top.node].templated
             THEN Returns(NewString(Nodes[Top.node].value))
             ELSE StringGoesOn(Top, 1, 0, <<>>, <<>>)
       \/ /\ Running("evalStringLiteral", "expr")
          /\ StringExpr(Top, ret)

---------------------------------------------------------------------------

Next ==
    \/ Cancel
    \/ Evaluate
    \/ trackExecution
    \/ evalBlockStatement
    \/ evalControl
    \/ evalFor
    \/ evalSimpleForLoop
    \/ evalIteratorForLoop
    \/ evalSwitch
    \/ evalExpressions
    \/ evalPipe
    \/ evalStringLiteral

Spec == Init /\ [][Next]_vars

\* A step the evaluator takes by itself. trackExecution is not one: fmt.Scanln
\* returns only when the operator answers, and until then the call blocks.
Run ==
    \/ Evaluate
    \/ evalBlockStatement
    \/ evalControl
    \/ evalFor
    \/ evalSimpleForLoop
    \/ evalIteratorForLoop
    \/ evalSwitch
    \/ evalExpressions
    \/ evalPipe
    \/ evalStringLiteral

\* The goroutine that evaluates keeps running; nothing makes the operator
\* answer a breakpoint stop.
FairSpec == Spec /\ WF_vars(Run)

---------------------------------------------------------------------------
(* The REPL: repl.Run and the key handler it gives to keyboard.Listen.     *)
(* A string is a sequence of one-byte characters.                          *)

\* the longest line that is edited
MaxLine == 2
\* the longest line that is submitted
MaxEntry == 1
\* the most lines that are submitted
MaxEnters == 1
\* the largest cursor column
MaxColumn == 3

\* the characters typed
Chars == {"a", " "}

\* key.Runes of the key events: no character or one
RunesOf == {<<>>} \cup {<<c>> : c \in Chars}

\* the Go slice expression s[lo:hi]
Slice(s, lo, hi) == SubSeq(s, lo + 1, hi)

\* s[lo:hi] is in range
InRange(s, lo, hi) == 0 <= lo /\ lo <= hi /\ hi <= Len(s)

\* strings.Split(data, "\n")
RECURSIVE Split(_)
Split(data) ==
    IF \A i \in 1..Len(data) : data[i] # "\n"
    THEN <<data>>
    ELSE LET i == CHOOSE k \in 1..Len(data) :
                      data[k] = "\n" /\ \A j \in 1..(k - 1) : data[j] # "\n"
         IN  <<SubSeq(data, 1, i - 1)>> \o Split(SubSeq(data, i + 1, Len(data)))

\* os.ReadFile(historyPath): an error, or the bytes of the file
HistoryData ==
    {[ok |-> FALSE], [ok |-> TRUE, data |-> <<>>], [ok |-> TRUE, data |-> <<"a", "\n">>]}

\* the locals of Run that the key handler closes over
Editor ==
    [column |-> column, historyIndex |-> historyIndex, history |-> history,
     accumulate |-> accumulate, panic |-> FALSE]

\* a slice or index expression out of range
Panic(r) == [r EXCEPT !.panic = TRUE]

\* case keys.Enter, the locals
OnEnter(r) ==
    LET h == Append(r.history, r.accumulate)
    IN  [r EXCEPT !.history = h, !.historyIndex = Len(h), !.accumulate = <<>>, !.column = 0]

\* case keys.RuneKey, keys.Space, keys.Tab
OnInsert(r, runes) ==
    IF r.column < Len(r.accumulate)
    THEN IF ~InRange(r.accumulate, r.column, Len(r.accumulate))
         THEN Panic(r)
         ELSE [r EXCEPT !.accumulate = Slice(r.accumulate, 0, r.column) \o runes
                                       \o Slice(r.accumulate, r.column, Len(r.accumulate)),
                        !.column = r.column + 1]
    ELSE [r EXCEPT !.accumulate = r.accumulate \o runes, !.column = r.column + 1]

\* case keys.Backspace
OnBackspace(r) ==
    IF Len(r.accumulate) > 0
    THEN LET moved == IF r.column > 0 THEN r.column - 1 ELSE r.column
         IN  IF r.column < Len(r.accumulate)
             THEN IF ~InRange(r.accumulate, r.column, Len(r.accumulate))
                  THEN Panic(r)
                  ELSE IF r.column > 0
                  THEN [r EXCEPT !.accumulate = Slice(r.accumulate, 0, r.column - 1)
                                                \o Slice(r.accumulate, r.column,
                                                         Len(r.accumulate)),
                                 !.column = moved]
                  ELSE [r EXCEPT !.column = moved]
             ELSE [r EXCEPT !.accumulate = Slice(r.accumulate, 0, Len(r.accumulate) - 1),
                            !.column = moved]
    ELSE r

\* `accumulate = history[historyIndex]; column = len(accumulate)`
Recall(r) ==
    IF r.historyIndex < 0 \/ r.historyIndex >= Len(r.history)
    THEN Panic(r)
    ELSE [r EXCEPT !.accumulate = r.history[r.historyIndex + 1],
                   !.column = Len(r.history[r.historyIndex + 1])]

\* case keys.Up with the history cursor moved back unconditionally
OnUpUnguarded(r) ==
    LET u == [r EXCEPT !.historyIndex = r.historyIndex - 1]
    IN  IF u.historyIndex < Len(u.history) THEN Recall(u) ELSE u

\* case keys.Up
OnUp(r) ==
    LET u == IF r.historyIndex > 0 THEN [r EXCEPT !.historyIndex = r.historyIndex - 1] ELSE r
    IN  IF u.historyIndex < Len(u.history) THEN Recall(u) ELSE u

\* case keys.Down
OnDown(r) ==
    LET d == IF r.historyIndex < Len(r.history) - 1
             THEN [r EXCEPT !.historyIndex = r.historyIndex + 1] ELSE r
    IN  IF d.historyIndex < Len(d.history)
        THEN Recall(d)
        ELSE [d EXCEPT !.column = 0, !.accumulate = <<>>]

\* case keys.Left
OnLeft(r) == IF r.column > 0 THEN [r EXCEPT !.column = r.column - 1] ELSE r

\* case keys.Right
OnRight(r) == IF r.column < Len(r.accumulate) THEN [r EXCEPT !.column = r.column + 1] ELSE r

\* case keys.CtrlA
OnCtrlA(r) == [r EXCEPT !.column = 0]

\* case keys.CtrlE
OnCtrlE(r) == [r EXCEPT !.column = Len(r.accumulate)]

\* the handler returns `false, nil` with the locals r, or it has panicked
Handled(r) ==
    /\ column' = r.column
    /\ historyIndex' = r.historyIndex
    /\ history' = r.history
    /\ accumulate' = r.accumulate
    /\ listener' = IF r.panic THEN "panicked" ELSE listener

\* Run, up to the call of keyboard.Listen
ReplInit ==
    /\ root = 218 /\ opts = DefaultOpts
    /\ builtins = NewBuiltins(opts) /\ breakpoints = New(opts.Breakpoints, TRUE)
    /\ stack = <<>> /\ ret = NoRet
    /\ scopes = <<[parent |-> 0, vars |-> Globals]>>
    /\ cancelled = FALSE
    /\ tracked = [n |-> 0] /\ out = [n |-> 0] /\ applied = [n |-> 0]
    /\ last = NoEvent
    /\ column = 0 /\ accumulate = <<>>
    /\ \E home \in BOOLEAN, read \in HistoryData, writable \in BOOLEAN :
          /\ historyPath = IF home THEN "~/.tamarin_history" ELSE ""
          /\ history = IF home /\ read.ok THEN Split(read.data) ELSE <<>>
          /\ historyIndex = IF home /\ read.ok THEN Len(Split(read.data)) - 1 ELSE 0
          /\ historyFile = [writable |-> home /\ writable, lines |-> <<>>]
    /\ executed = [n |-> 0]
    /\ listener = "on"
    /\ noted = ""

\* appendToHistory(line)
appendToHistory(line) ==
    IF historyPath # "" /\ historyFile.writable
    THEN [historyFile EXCEPT !.lines = Append(historyFile.lines, line)]
    ELSE historyFile

\* keys.Enter: execute, appendToHistory, and the locals; the error of execute
\* is dropped
KeyEnter ==
    /\ listener = "on"
    /\ executed.n < MaxEnters /\ Len(accumulate) <= MaxEntry
    /\ executed' = [n |-> Sat(executed.n), code |-> accumulate]
    /\ \E failed \in BOOLEAN : noted' = IF failed THEN "failed" ELSE ""
    /\ historyFile' = appendToHistory(accumulate)
    /\ Handled(OnEnter(Editor))
    /\ UNCHANGED <<evalVars, historyPath>>

\* keys.RuneKey, keys.Space, keys.Tab
KeyInsert ==
    /\ listener = "on"
    /\ column < MaxColumn
    /\ \E code \in {"RuneKey", "Space", "Tab"}, runes \in RunesOf :
          /\ Len(accumulate) + Len(runes) <= MaxLine
          /\ Handled(OnInsert(Editor, runes))
    /\ noted' = ""
    /\ UNCHANGED <<evalVars, historyPath, historyFile, executed>>

KeyBackspace ==
    /\ listener = "on"
    /\ noted' = ""
    /\ Handled(OnBackspace(Editor))
    /\ UNCHANGED <<evalVars, historyPath, historyFile, executed>>

KeyUp ==
    /\ listener = "on"
    /\ Handled(OnUp(Editor))
    /\ noted' = ""
    /\ UNCHANGED <<evalVars, historyPath, historyFile, executed>>

KeyDown ==
    /\ listener = "on"
    /\ Handled(OnDown(Editor))
    /\ noted' = ""
    /\ UNCHANGED <<evalVars, historyPath, historyFile, executed>>

KeyLeft ==
    /\ listener = "on"
    /\ Handled(OnLeft(Editor))
    /\ noted' = ""
    /\ UNCHANGED <<evalVars, historyPath, historyFile, executed>>

KeyRight ==
    /\ listener = "on"
    /\ Handled(OnRight(Editor))
    /\ noted' = ""
    /\ UNCHANGED <<evalVars, historyPath, historyFile, executed>>

KeyCtrlA ==
    /\ listener = "on"
    /\ Handled(OnCtrlA(Editor))
    /\ noted' = ""
    /\ UNCHANGED <<evalVars, historyPath, historyFile, executed>>

KeyCtrlE ==
    /\ listener = "on"
    /\ Handled(OnCtrlE(Editor))
    /\ noted' = ""
    /\ UNCHANGED <<evalVars, historyPath, historyFile, executed>>

\* keys.CtrlC, keys.CtrlD: os.Exit(0)
KeyExit ==
    /\ listener = "on"
    /\ listener' = "exited"
    /\ noted' = ""
    /\ UNCHANGED <<evalVars, column, historyIndex, history, accumulate, historyPath,
                   historyFile, executed>>

\* a key with no case in the handler's switch
KeyOther ==
    /\ listener = "on"
    /\ noted' = ""
    /\ UNCHANGED <<evalVars, column, historyIndex, history, accumulate, historyPath,
                   historyFile, executed, listener>>

ReplNext ==
    \/ KeyEnter
    \/ KeyInsert
    \/ KeyBackspace
    \/ KeyUp
    \/ KeyDown
    \/ KeyLeft
    \/ KeyRight
    \/ KeyCtrlA
    \/ KeyCtrlE
    \/ KeyExit
    \/ KeyOther

ReplSpec == ReplInit /\ [][ReplNext]_vars

---------------------------------------------------------------------------
(* Properties *)

Done == stack = <<>>

LoopFns == {"evalFor", "evalSimpleForLoop", "evalIteratorForLoop"}

IsReturn(obj) == IsControl(obj) /\ obj.keyword = "return"

\* the last evaluator step was a `return` of the call that was running
Returned == Len(stack) = last.depth - 1

\* the last evaluator step was taken by a loop that consumed the result of `pc`
LoopGot(pc) == last.pre.fn \in LoopFns /\ last.pre.pc = pc /\ last.got # NoRet

\* the breakpoint table holds an enabled breakpoint for node n
EnabledBreakpoint(n) ==
    LET bp == GetBreakpoint(breakpoints, Nodes[n].line)
    IN  bp.found /\ ~bp.b.Disabled

\* C1: a call of Evaluate that finds the context cancelled returns the
\* cancellation Error at once: the call ends with that Error, no statement is
\* tracked, no breakpoint report is printed, no scope changes, nothing is
\* called or dispatched.
C1_CancelledEvaluateReturnsAtOnce ==
    [][(Running("Evaluate", "entry") /\ cancelled) =>
          /\ stack' = Pop
          /\ ret' = ErrCancelled
          /\ tracked' = tracked
          /\ out' = out
          /\ scopes' = scopes
          /\ applied' = applied]_vars

\* a nested Evaluate call for a statement with an enabled breakpoint has found
\* the context cancelled and returned
C1_Witness ==
    /\ last.pre.fn = "Evaluate" /\ last.pre.pc = "entry" /\ last.done
    /\ last.depth > 1
    /\ Nodes[last.pre.node].stmt
    /\ EnabledBreakpoint(last.pre.node)
    /\ ret = ErrCancelled

\* the cancellation Error, as a call returns it
CarriesCancellation(obj) == obj = ErrCancelled \/ obj = List(<<ErrCancelled>>)

\* Evaluate is blocked in trackExecution, waiting for the operator's answer
AtStop == Running("Evaluate", "scanln")

C3_LoopReturnsErrorUnchanged ==
    (last.pre.fn \in LoopFns /\ IsError(last.got)) => (Returned /\ ret = last.got)

\* the body of an iterator loop failed in the second iteration
C3_Witness ==
    /\ LoopGot("body") /\ last.pre.fn = "evalIteratorForLoop"
    /\ last.got = Error("body")
    /\ last.pre.h.body = 2 /\ last.pre.pos = 2
    /\ Done /\ ret = Error("body")

\* C4: a loop whose body yields break returns, and what it returns is the last
\* body result that was neither an Error nor a Control object (nil if there was
\* none); no loop ever returns a break or continue signal, so the frames of the
\* enclosing loops are left as they were.
C4_BreakEndsOnlyThisLoop ==
    /\ (LoopGot("body") /\ last.got = NewBreak) =>
          /\ Returned
          /\ ret = last.pre.h.ord
          /\ ~IsControl(ret) /\ ~IsError(ret)
    /\ (last.pre.fn \in LoopFns /\ Returned) => ret \notin {NewBreak, NewContinue}

\* the inner loop of a loop nest has ended on break with the value 1 of an
\* earlier iteration, while the outer loop is in its second iteration
C4_Witness ==
    /\ LoopGot("body") /\ last.got = NewBreak /\ last.pre.node = 107
    /\ last.pre.h.ord = NewInt(1) /\ ret = NewInt(1)
    /\ \E i \in 1..Len(stack) : stack[i].fn = "evalFor" /\ stack[i].node = 100
                                /\ stack[i].h.body = 2

\* the call below the running one
Caller == stack[Len(stack) - 1]

\* the running call is an Evaluate call, not yet begun, made by function fn at pc
Starts(fn, pc) ==
    /\ Len(stack) >= 2
    /\ Top.fn = "Evaluate" /\ Top.pc = "entry"
    /\ Caller.fn \in fn /\ Caller.pc = pc

\* the frames of the stack that belong to fns and have got past `start`
Frames(fns) == {i \in 1..Len(stack) : stack[i].fn \in fns /\ stack[i].pc # "start"}

\* the entry the iterator loop in frame f has bound for its running iteration
BoundNames(f) ==
    [name \in {f.names[i] : i \in 1..Len(f.names)} |->
        IF name = f.names[1] THEN NewInt(f.pos - 1) ELSE NewInt(f.pos - 1 + 10)]

\* C5: when a loop body starts, the loop scope holds nothing (condition and
\* simple form) or exactly the bound names with the entry of this iteration
\* (iterator form); the loop scope stays the child of the for scope and the for
\* scope the child of the scope the loop runs in; and a step of a loop that goes
\* on changes no scope but the loop scope.
C5_LoopScopeClearedEachIteration ==
    /\ [](Starts(LoopFns, "body") =>
            LET own == scopes[Caller.loopScope].vars
            IN  IF Caller.fn = "evalIteratorForLoop"
                THEN own = BoundNames(Caller)
                ELSE own = NoVars)
    /\ [](\A i \in Frames(LoopFns) :
            /\ scopes[stack[i].loopScope].parent = stack[i].forScope
            /\ scopes[stack[i].forScope].parent = stack[i].scope)
    /\ [][(~Done /\ Top.fn \in LoopFns /\ Top.pc # "start" /\ Len(stack') >= Len(stack)) =>
             \A s \in 1..Len(scopes) :
                s # Top.loopScope => (s <= Len(scopes') /\ scopes'[s] = scopes[s])]_vars

\* the body of the third iteration of the counting loop starts: the body has
\* twice declared t in the loop scope, and i and sum live in the outer scopes
C5_Witness ==
    /\ Starts(LoopFns, "body") /\ root = 11 /\ Caller.h.body = 3
    /\ scopes[Caller.loopScope].vars = NoVars
    /\ scopes[Caller.forScope].vars = ("i" :> NewInt(2))
    /\ scopes[1].vars["sum"] = NewInt(1)

\* C6: in the condition form the init statement is evaluated once, in the for
\* scope, before the first condition; the calls go cond, body, post, cond, ...
\* with the condition and the post statement in the for scope and the body in
\* the loop scope; the body has run once per truthy condition; a falsy
\* condition ends the loop with latestValue; and the counting loop to 3 whose
\* post statement is the assignment i = i + 1 ends after 4 conditions, 3
\* bodies and 3 post statements with sum = 0 + 1 + 2, while the one whose post
\* statement is the declaration i := i + 1 ends after 1 condition, 1 body and
\* 1 post statement with the Error of declaring i a second time in the for
\* scope.
C6_ConditionFormOrder ==
    /\ \A i \in Frames({"evalFor"}) :
          LET f == stack[i]
              n == Nodes[f.node]
              posts == IF n.post # 0 THEN f.h.post ELSE 0
          IN  /\ f.h.init = (IF n.init # 0 THEN 1 ELSE 0)
              /\ f.pc = "init" =>
                    f.h.cond = 0 /\ f.h.body = 0 /\ f.h.post = 0
              /\ (f.pc = "cond" /\ f.h.cond < MaxCount) =>
                    /\ f.h.body = f.h.cond - 1
                    /\ f.h.truthy = f.h.body
                    /\ n.post # 0 => f.h.post = f.h.body
              /\ (f.pc = "body" /\ f.h.cond < MaxCount) =>
                    /\ f.h.body = f.h.cond
                    /\ f.h.truthy = f.h.body
                    /\ n.post # 0 => f.h.post = f.h.body - 1
              /\ (f.pc = "post" /\ f.h.cond < MaxCount) =>
                    /\ f.h.body = f.h.cond
                    /\ f.h.truthy = f.h.body
                    /\ f.h.post = f.h.body
    /\ Starts({"evalFor"}, "init") =>
          Top.node = Nodes[Caller.node].init /\ Top.scope = Caller.forScope
    /\ Starts({"evalFor"}, "cond") =>
          Top.node = Nodes[Caller.node].cond /\ Top.scope = Caller.forScope
    /\ Starts({"evalFor"}, "body") =>
          Top.node = Nodes[Caller.node].body /\ Top.scope = Caller.loopScope
    /\ Starts({"evalFor"}, "post") =>
          Top.node = Nodes[Caller.node].post /\ Top.scope = Caller.forScope
    /\ (last.pre.fn = "evalFor" /\ last.pre.pc = "cond" /\ ~IsError(last.got)
          /\ ~IsTruthy(last.got)) =>
          (Returned /\ ret = last.pre.latestValue)
    /\ (root = 11 /\ Done /\ ~IsError(ret)) =>
          /\ last.pre.pc = "cond"
          /\ last.pre.h.cond = 4 /\ last.pre.h.body = 3 /\ last.pre.h.post = 3
          /\ scopes[1].vars["sum"] = NewInt(3)
          /\ ret = NewInt(2)
    /\ (root = 240 /\ Done /\ ~cancelled) =>
          /\ last.pre.fn = "evalFor" /\ last.pre.pc = "post"
          /\ last.got = Error("already declared") /\ ret = last.got
          /\ last.pre.h.cond = 1 /\ last.pre.h.body = 1 /\ last.pre.h.post = 1
          /\ scopes[1].vars["sum"] = NewInt(0)

\* C6's example as stated: the loop whose post statement is the declaration
\* i := i + 1 runs its body exactly 3 times and evaluates its condition
\* exactly 4 times.
C6_DeclaringPostCountsToThree ==
    (root = 240 /\ Done /\ ~cancelled) =>
        /\ last.pre.fn = "evalFor" /\ last.pre.pc = "cond"
        /\ last.pre.h.cond = 4 /\ last.pre.h.body = 3

\* the counting loop has ended on its fourth, falsy, condition
C6_Witness ==
    /\ root = 11 /\ Done /\ ret = NewInt(2)
    /\ last.pre.fn = "evalFor" /\ last.pre.pc = "cond" /\ last.got = NewBool(FALSE)
    /\ last.pre.h.cond = 4 /\ last.pre.h.body = 3

\* C7: a loop that receives a Return signal from its body, and a switch that
\* receives one from the block it executed, returns that very signal in the
\* same step: no post statement, no condition, no further iteration.
C7_ReturnPassesThroughLoopAndSwitch ==
    (/\ IsReturn(last.got)
     /\ \/ last.pre.fn \in LoopFns /\ last.pre.pc = "body"
        \/ last.pre.fn = "evalSwitch" /\ last.pre.pc = "block") =>
       (Returned /\ ret = last.got)

\* the Return of the innermost body of for { switch { for { ... } } } has come
\* out of the outermost loop
C7_Witness ==
    /\ root = 100 /\ Done /\ ret = NewReturn(NewInt(7))
    /\ last.pre.fn = "evalFor" /\ last.pre.node = 100 /\ last.got = ret

\* C8: a pipe that receives a Return signal from its source expression or from
\* the expression of a stage returns that very signal in the same step.
C8_ReturnPassesThroughPipe ==
    (/\ last.pre.fn = "evalPipe"
     /\ last.pre.pc \in {"source", "function", "object", "bare"}
     /\ IsReturn(last.got)) =>
       (Returned /\ ret = last.got)

\* all candidates of the non-default cases
AllCandidates(choices) ==
    UNION {{<<c, e>> : e \in 1..Len(choices[c].exprs)} :
              c \in {d \in 1..Len(choices) : ~choices[d].default}}


\* candidate p stands before candidate q, reading the cases top to bottom and
\* the candidates of a case left to right
Before(p, q) == p[1] < q[1] \/ (p[1] = q[1] /\ p[2] < q[2])

\* the block frame a switch frame at stack position i is executing, if any
RunsBlockOf(i, c) ==
    i < Len(stack) =>
        /\ stack[i + 1].fn = "evalBlockStatement"
        /\ stack[i + 1].node = Nodes[stack[i].node].choices[c].block

\* C9: a switch evaluates its candidates after the subject, top to bottom and
\* left to right, and only as long as none has equalled the subject; the block
\* of a non-default case is executed only for the first candidate that equals
\* the subject, it is that case's block, no candidate is evaluated after it and
\* the block's result is the switch's; with cases [1,2]->A, [2]->B and subject
\* 2 block A is executed and B's candidate is not evaluated.
C9_SwitchFirstMatchInOrder ==
    /\ \A i \in Frames({"evalSwitch"}) :
          LET f == stack[i]
              choices == Nodes[f.node].choices
              n == Len(f.seen)
          IN  /\ \A k \in 1..n :
                    /\ f.seen[k] \in AllCandidates(choices)
                    /\ Cardinality({p \in AllCandidates(choices) : Before(p, f.seen[k])})
                          = k - 1
              /\ f.pc = "value" => (n = 0 /\ f.ran = 0)
              /\ f.pc = "candidate" =>
                    /\ f.ran = 0
                    /\ Len(f.vals) = n - 1
                    /\ \A k \in 1..(n - 1) : f.vals[k] # f.value
              /\ (f.pc = "block" /\ ~choices[f.ran].default) =>
                    /\ Len(f.vals) = n /\ n > 0
                    /\ f.vals[n] = f.value
                    /\ \A k \in 1..(n - 1) : f.vals[k] # f.value
                    /\ f.ran = f.seen[n][1]
                    /\ RunsBlockOf(i, f.ran)
              /\ (f.pc = "block" /\ f.node = 60 /\ f.value = NewInt(2)) =>
                    /\ f.ran = 1
                    /\ \A k \in 1..n : f.seen[k] # <<2, 1>>
    /\ (last.pre.fn = "evalSwitch" /\ last.pre.pc = "block") =>
          (Returned /\ ret = last.got)

\* subject 2 has met the second candidate of the first case of
\* switch { case 1, 2: A  case 2: B ... } and block A is being executed
C9_Witness ==
    \E i \in Frames({"evalSwitch"}) :
        /\ stack[i].node = 60 /\ stack[i].pc = "block"
        /\ stack[i].value = NewInt(2)
        /\ stack[i].seen = <<<<1, 1>>, <<1, 2>>>>
        /\ stack[i].ran = 1
        /\ i < Len(stack) /\ stack[i + 1].node = 64

\* C10: a default block is executed only after every candidate of every
\* non-default case was evaluated and none equalled the subject, and it is the
\* block of the first default case in declaration order; its result is the
\* switch's; a switch that ends without executing a block yields nil, has no
\* default case, and none of its candidates equalled the subject.
C10_SwitchDefault ==
    /\ \A i \in Frames({"evalSwitch"}) :
          LET f == stack[i]
              choices == Nodes[f.node].choices
          IN  (f.pc = "block" /\ choices[f.ran].default) =>
                 /\ Len(f.seen) = Cardinality(AllCandidates(choices))
                 /\ Len(f.vals) = Len(f.seen)
                 /\ \A k \in 1..Len(f.vals) : f.vals[k] # f.value
                 /\ \A d \in 1..(f.ran - 1) : ~choices[d].default
                 /\ RunsBlockOf(i, f.ran)
    /\ (last.pre.fn = "evalSwitch" /\ last.pre.pc = "block") =>
          (Returned /\ ret = last.got)
    /\ (/\ last.pre.fn = "evalSwitch" /\ last.pre.pc \in {"value", "candidate"}
        /\ Returned /\ ~IsError(last.got)) =>
          LET f == last.pre
              choices == Nodes[f.node].choices
          IN  /\ ret = Nil
              /\ \A d \in 1..Len(choices) : ~choices[d].default
              /\ Len(f.seen) = Cardinality(AllCandidates(choices))
              /\ f.pc = "candidate" =>
                    /\ last.got # f.value
                    /\ \A k \in 1..Len(f.vals) : f.vals[k] # f.value

\* subject 4 has met none of the four candidates and the block of the first of
\* the two default cases, the third case of five, is being executed
C10_Witness ==
    \E i \in Frames({"evalSwitch"}) :
        /\ stack[i].node = 60 /\ stack[i].pc = "block"
        /\ stack[i].value = NewInt(4)
        /\ Len(stack[i].seen) = 4
        /\ stack[i].ran = 3
        /\ i < Len(stack) /\ stack[i + 1].node = 69

\* a call was handed to applyFunction / evalObjectCall by a plain call stage or
\* a method-style call stage of a pipe
CallStageApplied == applied.n > 0 /\ applied.kind \in {"call", "object"}

\* an evalExpressions call made by evalPipe finds the callee (or the object)
\* of its stage already evaluated
CalleeBeforeArguments ==
    \A k \in 1..Len(stack) :
        stack[k].fn = "evalExpressions" =>
            /\ k > 1
            /\ stack[k - 1].fn = "evalPipe"
            /\ stack[k - 1].pc \in {"arguments", "objectArguments"}
            /\ stack[k - 1].callee \notin {GoNil, NoRet}
            /\ ~IsError(stack[k - 1].callee)

\* C11 as stated: the argument list of a plain or method-style call stage is
\* always the piped value followed by the explicit arguments, one longer than
\* the explicit arguments.
C11_PipedValueAlwaysFirst ==
    CallStageApplied =>
        /\ Len(applied.args) = Len(applied.explicit) + 1
        /\ applied.args = <<applied.nextArg>> \o applied.explicit

\* C11, amended: the argument list of a plain or method-style call stage is
\* the piped value followed by the explicit arguments in their order when the
\* piped value is not Go's nil, and the explicit arguments alone when it is;
\* the callee is evaluated before the explicit arguments; a piped 1 and
\* sub(10) call sub(1, 10).
C11_PipedValueFirstUnlessNil ==
    /\ CallStageApplied =>
          /\ applied.nextArg # GoNil =>
                /\ Len(applied.args) = Len(applied.explicit) + 1
                /\ applied.args[1] = applied.nextArg
                /\ \A i \in 1..Len(applied.explicit) :
                       applied.args[i + 1] = applied.explicit[i]
          /\ applied.nextArg = GoNil => applied.args = applied.explicit
    /\ CalleeBeforeArguments
    /\ (applied.n > 0 /\ applied.node = 180 /\ applied.stage = 2) =>
          /\ applied.fn = Function("sub")
          /\ applied.args = <<NewInt(1), NewInt(10)>>
          /\ applied.res = NewInt(-9)

\* the method-style stage <obj>.first(1, <arg>) of a pipe whose piped value is 5
\* has called first with 5, 1, 2
C11_Witness ==
    /\ CallStageApplied /\ applied.kind = "object" /\ applied.node = 150
    /\ applied.nextArg = NewInt(5)
    /\ applied.explicit = <<NewInt(1), NewInt(2)>>
    /\ applied.args = <<NewInt(5), NewInt(1), NewInt(2)>>

\* the last evaluator step was taken by evalPipe on the result of `pc`
PipeGot(pcs) == last.pre.fn = "evalPipe" /\ last.pre.pc \in pcs /\ last.got # NoRet

\* the Errors among the elements of a returned slice
SliceErrors(obj) ==
    IF obj.ty = "<slice>" THEN {obj.elems[i] : i \in {j \in DOMAIN obj.elems : IsError(obj.elems[j])}}
    ELSE {}

\* C12: a pipe that receives an Error from its source expression, from the
\* callee, the object or the bare expression of a stage, from an explicit
\* argument or from the invocation of a stage returns that same Error in the
\* step that receives it, so no later stage is evaluated or invoked.
C12_PipeReturnsErrorUnchanged ==
    /\ (PipeGot({"source", "function", "object", "bare"}) /\ IsError(last.got)) =>
          (Returned /\ ret = last.got)
    /\ (PipeGot({"arguments", "objectArguments"}) /\ SliceErrors(last.got) # {}) =>
          (Returned /\ ret \in SliceErrors(last.got))
    /\ (Done /\ root = 150 /\ ret \in {Error("obj"), Error("arg")}) => applied.n = 0
    /\ (applied.n > 0 /\ IsError(applied.res)) =>
          (Done /\ ret = applied.res /\ last.pre.fn = "evalPipe" /\ last.pre.i = applied.stage)

\* the second explicit argument of the first stage of a three-stage pipe was an
\* Error: the pipe has ended with it and has invoked nothing
C12_Witness ==
    /\ Done /\ root = 150 /\ ret = Error("arg")
    /\ PipeGot({"objectArguments"})
    /\ applied.n = 0

\* C13: a bare stage expression after the source that evaluates to a value that
\* is neither a function nor a builtin makes the pipe return a type error.
C13_BareValueOnlyAsSource ==
    (/\ PipeGot({"bare"})
     /\ ~IsError(last.got)
     /\ last.got.ty \notin {"function", "builtin"}) =>
       (Returned /\ IsError(ret))

\* the last evaluator step was the invocation of a bare function or builtin
\* stage of a pipe
BareStageInvoked ==
    /\ PipeGot({"bare"})
    /\ last.got.ty \in {"function", "builtin"}

\* C14: a bare stage that evaluates to a function or builtin is invoked with
\* the piped value as its only argument when there is a piped value (any
\* object, the language's nil object included) and with no argument when the
\* piped value is Go's nil; unless the result is an Error it is the piped value
\* of the next stage, or the pipe's result after the last stage; a piped 5 and
\* double give 10.
C14_BareCallableStage ==
    /\ BareStageInvoked =>
          /\ applied.n > 0 /\ applied.kind = "bare" /\ applied.fn = last.got
          /\ applied.stage = last.pre.i /\ applied.nextArg = last.pre.nextArg
          /\ applied.nextArg # GoNil => applied.args = <<applied.nextArg>>
          /\ applied.nextArg = GoNil => applied.args = <<>>
          /\ ~IsError(applied.res) =>
                IF Done
                THEN ret = (IF applied.res = GoNil THEN Nil ELSE applied.res)
                ELSE /\ Len(stack) = last.depth + 1
                     /\ stack[last.depth].fn = "evalPipe"
                     /\ stack[last.depth].nextArg = applied.res
                     /\ stack[last.depth].i = last.pre.i + 1
    /\ (BareStageInvoked /\ applied.node = 140) =>
          /\ applied.fn = Function("double")
          /\ applied.args = <<NewInt(5)>> => applied.res = NewInt(10)

\* the builtin `any`, a bare stage, has been invoked with no argument after a
\* stage whose result was Go's nil
C14_Witness ==
    /\ BareStageInvoked /\ applied.node = 190
    /\ applied.fn = Builtin("any")
    /\ applied.nextArg = GoNil /\ applied.args = <<>>

\* the last evaluator step ended the evaluation of the string literal at the root
StringEnded ==
    /\ Done
    /\ Nodes[root].kind = "String"
    /\ last.pre.fn = "evalStringLiteral"

\* the values of the template expressions when the literal ended, by index
ExpressionValues ==
    IF last.pre.pc = "expr" THEN (last.pre.exprIndex :> last.got) @@ last.pre.vals ELSE <<>>

\* the number of variable fragments among the first i fragments
VariablesUpTo(node, i) == Cardinality({j \in 1..i : node.fragments[j].IsVariable})

\* the text fragment i stands for, given the values of the template expressions
FragmentText(node, i, vals) ==
    LET slot == VariablesUpTo(node, i)
    IN  IF ~node.fragments[i].IsVariable THEN node.fragments[i].Value
        ELSE IF node.exprs[slot] = 0 THEN ""
        ELSE IF vals[slot].ty = "string" THEN vals[slot].value
        ELSE Inspect(vals[slot])

\* the texts of fragments i.. in order, concatenated
RECURSIVE Rendered(_, _, _)
Rendered(node, i, vals) ==
    IF i > Len(node.fragments) THEN ""
    ELSE FragmentText(node, i, vals) \o Rendered(node, i + 1, vals)

\* C15: a templated string literal of which no expression fails evaluates to
\* the String that concatenates, in fragment order, the text of the literal
\* fragments and, for the i-th variable fragment, nothing if the i-th template
\* expression is absent, the raw text of its value if that is a String and the
\* value's Inspect text otherwise; "x=", VAR(3), "!" gives "x=3!", an absent
\* slot gives "x=!" and the builtin len gives "builtin(len)".
C15_TemplateConcatenatesInOrder ==
    /\ (StringEnded /\ Nodes[root].templated /\ ~IsError(ret)) =>
          /\ DOMAIN ExpressionValues = {k \in 1..Len(Nodes[root].exprs) : Nodes[root].exprs[k] # 0}
          /\ ret = NewString(Rendered(Nodes[root], 1, ExpressionValues))
    /\ (StringEnded /\ root = 210) =>
          /\ last.got = NewInt(3) => ret = NewString("x=3!")
          /\ last.got = NewInt(-12) => ret = NewString("x=-12!")
          /\ last.got = NewString("a b") => ret = NewString("x=a b!")
          /\ last.got = Nil => ret = NewString("x=nil!")
          /\ last.got = NewBool(TRUE) => ret = NewString("x=true!")
    /\ (StringEnded /\ root = 215) => ret = NewString("x=!")
    /\ (StringEnded /\ root = 220 /\ ~IsError(ret)) => ret = NewString("1-two3.")
    /\ (StringEnded /\ root = 230 /\ ~IsError(ret)) =>
          /\ last.got = NewInt(4) => ret = NewString("builtin(len)/4")
          /\ last.got = NewString("s") => ret = NewString("builtin(len)/s")
          /\ last.got = GlobalBuiltins[2] => ret = NewString("builtin(len)/builtin(math.abs)")

\* a literal of six fragments, four of them variable with the second slot
\* absent, has evaluated to its text from the values 1, "two" and 3
C15_Witness ==
    /\ StringEnded /\ root = 220
    /\ ExpressionValues = (1 :> NewInt(1)) @@ (3 :> NewString("two")) @@ (4 :> NewInt(3))
    /\ ret = NewString("1-two3.")

\* C16: a string literal that receives an Error from an embedded expression
\* returns that same Error in the step that receives it: it yields no String
\* and evaluates no later template expression.
C16_TemplateReturnsErrorUnchanged ==
    /\ (last.pre.fn = "evalStringLiteral" /\ last.pre.pc = "expr" /\ IsError(last.got)) =>
          (Returned /\ ret = last.got)
    /\ (StringEnded /\ root = 220 /\ ret = Error("b")) =>
          DOMAIN ExpressionValues = {1, 3}

\* the third template expression of four was an Error: the literal has ended
\* with it after the first expression gave 1, the fourth never being evaluated
C16_Witness ==
    /\ StringEnded /\ root = 220 /\ ret = Error("b")
    /\ last.pre.exprIndex = 3 /\ last.pre.vals = (1 :> NewInt(1))

\* the builtins New registers, in registration order
Registered ==
    IF opts.DisableDefaultBuiltins THEN opts.Builtins ELSE GlobalBuiltins \o opts.Builtins

\* the keys of a sequence of builtins
Keys(bs) == {BuiltinKey(bs[i]) : i \in 1..Len(bs)}

\* C17: the builtin registry holds exactly the keys of the default builtins
\* (unless they are disabled) and of Opts.Builtins, and maps each key to the
\* last builtin with that key in the sequence defaults, then Opts.Builtins; with
\* the defaults disabled it holds exactly the keys of Opts.Builtins.
C17_RegistryHoldsLastBuiltinPerKey ==
    /\ DOMAIN builtins = Keys(Registered)
    /\ \A k \in DOMAIN builtins :
          \E i \in 1..Len(Registered) :
             /\ BuiltinKey(Registered[i]) = k
             /\ builtins[k] = Registered[i]
             /\ \A j \in (i + 1)..Len(Registered) : BuiltinKey(Registered[j]) # k
    /\ opts.DisableDefaultBuiltins => DOMAIN builtins = Keys(opts.Builtins)
    /\ ~opts.DisableDefaultBuiltins => Keys(GlobalBuiltins) \subseteq DOMAIN builtins

\* an evaluator made with the defaults and two builtins named len, the second
\* of them registered under "len", has finished an evaluation
C17_Witness ==
    /\ Done
    /\ ~opts.DisableDefaultBuiltins
    /\ Len(opts.Builtins) = 2
    /\ BuiltinKey(opts.Builtins[1]) = "len" /\ BuiltinKey(opts.Builtins[2]) = "len"
    /\ opts.Builtins[1] # opts.Builtins[2]
    /\ builtins["len"] = opts.Builtins[2]
    /\ builtins["math.abs"] = GlobalBuiltins[2]

\* breakpoint i of Opts.Breakpoints is the only one given for its file and line
OnlyOneAt(i) ==
    \A j \in 1..Len(opts.Breakpoints) :
        (/\ opts.Breakpoints[j].File = opts.Breakpoints[i].File
         /\ opts.Breakpoints[j].Line = opts.Breakpoints[i].Line) => j = i

\* C18: the table entry for the file and line of every breakpoint of
\* Opts.Breakpoints that is the only one given for its position is that
\* breakpoint, GetBreakpoint returns it for a statement at that position, and
\* no report was printed for a position whose breakpoint is disabled.
C18_TableHoldsEachBreakpoint ==
    /\ \A i \in 1..Len(opts.Breakpoints) :
          OnlyOneAt(i) =>
             LET b == opts.Breakpoints[i]
             IN  /\ Key(b.File, b.Line) \in DOMAIN breakpoints
                 /\ breakpoints[Key(b.File, b.Line)] = b
                 /\ b.File = "main" =>
                       GetBreakpoint(breakpoints, b.Line) = [found |-> TRUE, b |-> b]
    /\ out.n > 0 =>
          \A i \in 1..Len(opts.Breakpoints) :
              (opts.Breakpoints[i].File = "main" /\ opts.Breakpoints[i].Line = out.line) =>
                  ~opts.Breakpoints[i].Disabled

\* the loop that took the last step is still running, one frame below the
\* Evaluate call it has just made for node n in scope s
LoopCalled(n, s) ==
    /\ Len(stack) = last.depth + 1
    /\ Top = EvalFrame(n, s)
    /\ stack[last.depth].node = last.pre.node
    /\ stack[last.depth].latestValue = last.pre.latestValue

\* C19: a loop whose body yields continue keeps its latestValue and goes on:
\* the simple form clears the loop scope and evaluates the body again, the
\* condition form evaluates the post statement (the condition when there is
\* none), the iterator form calls Next() and runs the body for the next entry,
\* or ends with latestValue when there is no entry left.
C19_ContinueGoesOn ==
    (LoopGot("body") /\ last.got = NewContinue) =>
        LET f == last.pre
            node == Nodes[f.node]
            g == stack[last.depth]
        IN  CASE f.fn = "evalSimpleForLoop" ->
                    /\ LoopCalled(node.body, f.s)
                    /\ g.fn = "evalSimpleForLoop" /\ g.pc = "body"
                    /\ scopes[f.s].vars = NoVars
              [] f.fn = "evalFor" ->
                    /\ LoopCalled(IF node.post # 0 THEN node.post ELSE node.cond, f.forScope)
                    /\ g.fn = "evalFor"
                    /\ g.pc = (IF node.post # 0 THEN "post" ELSE "cond")
                    /\ g.h.cond = (IF node.post # 0 THEN f.h.cond ELSE Sat(f.h.cond))
                    /\ g.h.post = (IF node.post # 0 THEN Sat(f.h.post) ELSE f.h.post)
              [] f.fn = "evalIteratorForLoop" ->
                    IF f.pos < f.iterator.len
                    THEN /\ LoopCalled(node.body, f.s)
                         /\ g.fn = "evalIteratorForLoop" /\ g.pc = "body"
                         /\ g.pos = f.pos + 1
                         /\ g.h.next = Sat(f.h.next)
                         /\ Lookup(scopes, f.s, f.names[1]) = NewInt(f.pos)
                    ELSE Returned /\ ret = f.latestValue

\* the body of a condition-form loop with a post statement has yielded
\* continue after an iteration that gave 2: the post statement is being
\* evaluated and latestValue is still 2
C19_Witness ==
    /\ LoopGot("body") /\ last.got = NewContinue
    /\ last.pre.fn = "evalFor" /\ last.pre.node = 6
    /\ last.pre.latestValue = NewInt(2)
    /\ Len(stack) = last.depth + 1
    /\ Top.node = 9
    /\ stack[last.depth].pc = "post" /\ stack[last.depth].latestValue = NewInt(2)

\* the last evaluator step was taken by evalIteratorForLoop at `pc`
IterLoopStep(pcs) == last.pre.fn = "evalIteratorForLoop" /\ last.pre.pc \in pcs

\* the condition of loop n, read as the claim reads it: the bound names and the
\* right-hand expression of a var / multi-var binding
Binding(n) ==
    LET cond == Nodes[Nodes[n].cond]
    IN  IF cond.kind = "Var" THEN [names |-> <<cond.name>>, rhs |-> cond.expr]
        ELSE IF cond.kind = "MultiVar" THEN [names |-> cond.names, rhs |-> cond.expr]
        ELSE [names |-> <<>>, rhs |-> 0]

\* the right-hand expression of an iterator loop is only ever being evaluated
\* for a loop that has made no Next() call and run no body
RhsBeforeFirstIteration ==
    \A k \in 2..Len(stack) :
        (/\ stack[k - 1].fn = "evalIteratorForLoop"
         /\ stack[k].fn = "Evaluate"
         /\ stack[k].node = Binding(stack[k - 1].node).rhs) =>
            /\ stack[k - 1].pc = "iter"
            /\ stack[k - 1].h.next = 0 /\ stack[k - 1].h.body = 0

\* an iterator loop whose condition is no binding, whose binding has not one
\* or two names, or whose right-hand value is no iterator returns an error,
\* and its body is never evaluated
BadIteratorLoopFails ==
    /\ (IterLoopStep({"start"}) /\ Len(Binding(last.pre.node).names) \notin {1, 2}) =>
          (Returned /\ IsError(ret))
    /\ (IterLoopStep({"iter"}) /\ ~IsError(last.got) /\ last.got.ty # "iterator") =>
          (Returned /\ IsError(ret) /\ last.pre.h.body = 0)
    /\ root \in {41, 45, 52} =>
          \A k \in 1..Len(stack) : stack[k].node # Nodes[root].body

\* What an iterator loop does once it holds an iterator, after the step `last`:
\* it ends when the body gave break, return or an Error; else it runs the body
\* for the next entry when `runs` allows it, and ends with latestValue when
\* there is no entry left.
BodyPerEntry(runs(_)) ==
    (IterLoopStep({"iter", "body"}) /\ (last.pre.pc = "iter" => last.got.ty = "iterator")) =>
        LET f == last.pre
            iterator == IF f.pc = "iter" THEN last.got ELSE f.iterator
            pos == IF f.pc = "iter" THEN 0 ELSE f.pos
            ended == /\ f.pc = "body"
                     /\ \/ IsError(last.got)
                        \/ IsControl(last.got) /\ last.got.keyword \in {"break", "return"}
        IN  IF ended THEN Returned
            ELSE IF pos >= iterator.len
            THEN Returned /\ ret = (IF f.pc = "body" /\ ~IsControl(last.got)
                                    THEN last.got ELSE f.latestValue)
            ELSE IF runs(f)
            THEN /\ Len(stack) = last.depth + 1
                 /\ Top = EvalFrame(Nodes[f.node].body, f.s)
                 /\ stack[last.depth].pc = "body"
                 /\ stack[last.depth].pos = pos + 1
                 /\ stack[last.depth].h.body = Sat(f.h.body)
                 /\ stack[last.depth].h.next = Sat(f.h.next)
            ELSE Returned /\ IsError(ret)

Always(f) == TRUE

DistinctNames(f) == Len(f.names) = 1 \/ f.names[1] # f.names[2]

\* C20 as stated: the right-hand expression is evaluated once, before the
\* first iteration; a loop of a wrong shape fails without running its body;
\* and the body runs for every entry Next() returns until Next() reports no
\* more entries or the body gives break, return or an Error.
C20_BodyRunsForEveryEntry ==
    /\ RhsBeforeFirstIteration
    /\ BadIteratorLoopFails
    /\ BodyPerEntry(Always)

\* C20, amended: as stated, but for an entry the body runs only when the bound
\* names can be declared, which fails when the two names are the same: then
\* the loop ends with the error of the declaration and the body is not run.
C20_BodyRunsForEveryDeclaredEntry ==
    /\ RhsBeforeFirstIteration
    /\ BadIteratorLoopFails
    /\ BodyPerEntry(DistinctNames)

\* the loop over an iterator of two entries has run its body twice, once per
\* entry, and has ended with the value of the second run when Next() reported
\* no more entries
C20_Witness ==
    /\ IterLoopStep({"body"}) /\ last.pre.node = 30
    /\ last.pre.iterator = Iter(2) /\ last.pre.pos = 2
    /\ last.pre.h.body = 2 /\ last.pre.h.next = 2
    /\ last.got = NewInt(2)
    /\ Returned /\ ret = NewInt(2)

\* evalStringLiteral has just taken the value of the template expression `n`
TemplateGot(n) ==
    /\ last.pre.fn = "evalStringLiteral" /\ last.pre.pc = "expr"
    /\ Nodes[last.pre.node].exprs[last.pre.exprIndex] = n

\* C21: a template expression is evaluated by an evaluator made from default
\* options, whatever the options of the enclosing evaluator are: a name that
\* no scope binds resolves to the default builtin of that name (or the
\* evaluation ends with the cancellation of the shared context), and while
\* a template expression is evaluated no statement is pushed on the enclosing
\* evaluator's stack, none of its breakpoints reports and none stops.
C21_TemplateExpressionsUseFreshEvaluator ==
    /\ [](TemplateGot(231) =>
            last.got \in {evalIdentifier(NewBuiltins(DefaultOpts), scopes, last.pre.scope, 231),
                          ErrCancelled})
    /\ [](InTemplate => Top.pc # "scanln")
    /\ [][InTemplate => (tracked' = tracked /\ out' = out)]_vars

\* An evaluator with an importer, without the default builtins, with its own
\* `len` and with an enabled stopping breakpoint on line 3 has evaluated the
\* template '{len}/{<statement on line 3>}' up to the value of the statement:
\* `len` gave the default builtin, nothing was tracked and nothing reported.
C21_Witness ==
    /\ root = 230
    /\ opts.Importer = "importer" /\ opts.DisableDefaultBuiltins
    /\ opts.Builtins = <<ModuleBuiltin("len", "", "", 3)>>
    /\ EnabledBreakpoint(232) /\ breakpoints[Key("main", 3)].Stop
    /\ last.pre = EvalFrame(232, 1)
    /\ Len(stack) = 1 /\ Top.fn = "evalStringLiteral"
    /\ Top.vals[1] = ModuleBuiltin("len", "", "", 1)
    /\ ret = NewInt(4)
    /\ tracked.n = 0 /\ out.n = 0

\* C22: after any sequence of key events the cursor is on the line or right
\* after it, 0 <= column <= len(accumulate).
C22_CursorStaysOnLine ==
    listener = "on" => (0 <= column /\ column <= Len(accumulate))

\* C23: the history cursor is between 0 and the length of the history, and
\* the handler never indexes the history out of range; Up and Down take the
\* line from history[historyIndex] only with the cursor below the length;
\* Enter appends the submitted line to the history, which it otherwise leaves
\* as it is, puts the history cursor at the end and empties the line, whether
\* the execution failed or not; only Ctrl-C and Ctrl-D end the listener.
C23_HistoryCursorInRange ==
    /\ [](0 <= historyIndex /\ historyIndex <= Len(history))
    /\ [](listener \in {"on", "exited"})
    /\ [][(KeyUp \/ KeyDown) =>
            /\ history' = history
            /\ IF historyIndex' < Len(history)
               THEN accumulate' = history[historyIndex' + 1] /\ column' = Len(accumulate')
               ELSE accumulate' \in {accumulate, <<>>}]_vars
    /\ [][KeyEnter =>
            /\ history' = Append(history, accumulate)
            /\ Len(history') = Len(history) + 1
            /\ historyIndex' = Len(history')
            /\ accumulate' = <<>> /\ column' = 0
            /\ listener' = "on"]_vars
    /\ [][listener' # listener => KeyExit]_vars

\* the history read from the file was "a" and "", the line "a" was typed and
\* submitted, and its execution failed: the history has the three lines, its
\* cursor is at the end, the line is empty and the listener goes on
C23_Witness ==
    /\ noted = "failed" /\ listener = "on"
    /\ history = <<<<"a">>, <<>>, <<"a">>>> /\ historyIndex = 3
    /\ executed = [n |-> 1, code |-> <<"a">>]
    /\ accumulate = <<>> /\ column = 0
    /\ historyFile.lines = <<<<"a">>>>

=============================================================================
